---- MODULE Spec2Model ----
(***************************************************************************)
(* State-machine model of the WhatsApp conversation bot                     *)
(* (ComputerScience-afk/backend_chat_bot).                                  *)
(*                                                                          *)
(* Three groups of state are modelled, each with its own specifications:    *)
(*   Spec / FairSpec / SpecStore                                            *)
(*       the service calls that wait or retry:                              *)
(*       UserTrackingService.acquireLock / releaseLock / tryOperation /     *)
(*       saveWorkbook and the record-store operations,                      *)
(*       OpenAIService.generateResponse and WhatsAppService.sendMessage;    *)
(*   SpecChat / FairChat                                                    *)
(*       WhatsAppService.handleIncomingMessage and its processing lock;     *)
(*   SpecTurn                                                               *)
(*       MessageHandler.handleIncomingMessage with the                      *)
(*       ConversationStateService.                                          *)
(* Time is kept as elapsed milliseconds (Date.now() - <timestamp>), which   *)
(* is all the code ever reads of a timestamp; elapsed values saturate one   *)
(* quantum past the largest threshold they are compared with.               *)
(***************************************************************************)
EXTENDS Integers, Sequences, FiniteSets, TLC

VARIABLES
    \* ---- UserTrackingService / OpenAIService / sendMessage calls
    call,           \* call id -> the position and locals of one async call
    fileLock,       \* UserTrackingService.fileLock: key -> holder (0 = no entry)
    lockTimeout,    \* UserTrackingService.lockTimeout: key -> ms elapsed since it was set
    forced,         \* history: <<call, key>> pairs that took the "forcing release" branch
    workbook,       \* the in-memory ExcelJS workbook (rows of each sheet)
    file,           \* data/user_tracking.xlsx: the workbook last written
    initialized,    \* UserTrackingService.initialized
    today,          \* the current local calendar day (America/Lima)
    early,          \* the wall clock in America/Lima is before 05:00
    hostTZ,         \* the time zone of the process (what toDateString reads)
    \* ---- WhatsAppService.handleIncomingMessage
    processingLock, \* WhatsAppService.processingLock: the chats whose entry is true
    messageQueue,   \* WhatsAppService.messageQueue: chat -> buffered fragments
    msg,            \* message id -> its handleIncomingMessage invocation
    turns,          \* history: the turn texts handed to messageHandler, in order
    \* ---- MessageHandler.handleIncomingMessage / ConversationStateService
    conversations,  \* ConversationStateService.conversations: phone -> state
    turn,           \* turn id -> one invocation of MessageHandler.handleIncomingMessage
    decision,       \* history: the last evaluation of shouldProcessLead
    leadDays,       \* history: <<phone, day>> pairs for which processLead was called
    served,         \* history: the number of turns that have started
    faults,         \* history: the number of failures the turns have met
    others,         \* tracked counterparts besides those of Phones
    stateOp,        \* history: the last direct call of ConversationStateService
    persisted,      \* data/conversations.json: the snapshot last written
    sweep,          \* history: the last run of cleanupInactiveConversations
    \* ---- WhatsAppService connection
    isReady,        \* WhatsAppService.isReady
    reconnectAttempts, \* WhatsAppService.reconnectAttempts
    connectionTimeout, \* WhatsAppService.connectionTimeout: the pending timer
    reconnecting,   \* initialize() calls of fired timers that have not settled
    scheduled,      \* history: <<attempt, delay>> of every setTimeout, in order
    budget          \* the failures that the callees of the turns may meet in all

lockVars == <<call, fileLock, lockTimeout, forced>>

storeVars == <<workbook, file, initialized>>

callVars == <<lockVars, storeVars>>

chatVars == <<processingLock, messageQueue, msg, turns>>

turnVars == <<conversations, turn, decision, leadDays, served, faults, others, stateOp>>

timeVars == <<today, early, hostTZ>>

sweepVars == <<persisted, sweep>>

connVars == <<isReady, reconnectAttempts, connectionTimeout, reconnecting, scheduled>>

sideVars == <<sweepVars, connVars, budget>>

vars == <<callVars, chatVars, turnVars, timeVars, sideVars>>

Min(a, b) == IF a < b THEN a ELSE b

(***************************************************************************)
(* Bounds of the model.                                                     *)
(***************************************************************************)
NCalls == 3         \* concurrent service calls (call slots)

NPhones == 2        \* counterparts (phone numbers / chat ids)

MaxDay == 1         \* local calendar days 0..MaxDay

Quantum == 5000     \* ms that one Tick advances the elapsed times of the locks

NMsgs == 3          \* incoming WhatsApp messages

ChatQuantum == 15000 \* ms that one TickChat advances the elapsed times of a chat

MaxSymptoms == 2    \* symptoms a conversation collects

NTurns == 1         \* concurrent invocations of MessageHandler.handleIncomingMessage

NSymptoms == 2      \* distinct symptoms

MaxTurnsRun == 2    \* turns that are started in all

MaxFaults == 1      \* failures of the provider, the transport and the store under the turns

IdleQuantum == 900000 \* ms that one IdleTick advances the age of the last interactions

MaxReplyFaults == 3 \* failures under the turns where failures are combined

MaxScheduled == 7   \* reconnection timers that are set in all

MaxInFlight == 2    \* initialize() calls of reconnection timers awaited at once

(***************************************************************************)
(* Program constants.                                                       *)
(***************************************************************************)
retryAttempts == 5          \* UserTrackingService.retryAttempts

maxWaitTime == 10000        \* UserTrackingService.maxWaitTime

saveMaxAttempts == 5        \* saveWorkbook: const maxAttempts = 5

aiRetryAttempts == 3        \* OpenAIService.retryAttempts

maxRetries == 3             \* sendMessage: const maxRetries = 3

PROCESSING_TIMEOUT == 30000 \* WhatsAppService.PROCESSING_TIMEOUT

MESSAGE_BUFFER_TIMEOUT == 15000 \* WhatsAppService.MESSAGE_BUFFER_TIMEOUT

conversationTimeout == 1800000 \* ConversationStateService.conversationTimeout

RECONNECT_DELAY == 5000         \* WhatsAppService.RECONNECT_DELAY

MAX_RECONNECT_ATTEMPTS == 5     \* WhatsAppService.MAX_RECONNECT_ATTEMPTS

maxConcurrentConversations == 100 \* ConversationStateService

\* One quantum past the idle timeout.
IdleCap == conversationTimeout + IdleQuantum

\* connectionTimeout when no reconnection timer is pending.
NoTimer == [armed |-> FALSE, attempt |-> 0, delay |-> 0]

Calls == 1..NCalls

\* The lock key of tryOperation is its `operation` argument, a function object.
\* Key 0 is a function shared by the direct callers of tryOperation; key w is
\* the closure that record-store call w creates for itself.
SharedKey == 0

LockKeys == 0..NCalls

RecordOps == {"trackUser", "trackObjection", "trackFreeConsultation", "getStats"}

\* Errors a store operation can raise, by what tryOperation's classifier reads:
\* error.code === 'EBUSY', a message containing 'timeout', or neither.
StoreErrors == {"EBUSY", "timeout", "other"}

\* acquireLock's own error: `Lock acquisition timeout for ...`
LockTimeoutError == "locktimeout"

Phones == 1..NPhones

Days == 0..MaxDay

\* The time zones the process can run in. Date.prototype.toDateString and
\* new Date(string) read the zone of the process.
HostZones == {"UTC", "America/Lima"}

\* The calendar day in America/Lima of the instant five hours before now.
FiveHoursAgo == IF early THEN today - 1 ELSE today

\* The day ConversationStateService derives from an instant:
\* new Date(t.getTime() - 5 * 60 * 60 * 1000).toDateString(), the date in the
\* zone of the process of the instant five hours earlier. In a UTC process
\* that is the date in America/Lima; in an America/Lima process it is the
\* date in America/Lima five hours earlier.
StateDay == IF hostTZ = "UTC" THEN today ELSE FiveHoursAgo

\* The day UserTrackingService writes: getPeruDateTime() parses the wall clock
\* of America/Lima as a time of the process zone, and formatPeruDate converts
\* that instant to America/Lima once more. In an America/Lima process that is
\* the date in America/Lima; in a UTC process it is the date five hours
\* earlier.
TrackDay == IF hostTZ = "America/Lima" THEN today ELSE FiveHoursAgo

\* The symptoms a counterpart can mention.
Symptoms == 1..NSymptoms

\* userData.location: absent, the placeholder the handler passes when no
\* location was extracted, or an extracted district.
NoLocation == "none"

PlaceholderLocation == "No proporcionada"

District == "Lima"

\* The argument of a call: the userData of a record-store operation (its
\* phone, symptoms and location) and the errors its operation can raise.
NoArg == [phone |-> 0, symptoms |-> <<>>, location |-> NoLocation, rejects |-> {}]

\* One async call: its kind, where it is suspended (pc), the attempts counter
\* of its retry loop, the ms it has waited in acquireLock, saveWorkbook's
\* attempts, how often the wrapped operation (or the provider, or the
\* transport) was invoked, how often writeFile was called, the error it ended
\* with and its return value.
IdleCall == [kind |-> "none", pc |-> "idle", attempts |-> 0, waited |-> 0,
             saveAttempts |-> 0, opRuns |-> 0, writes |-> 0, err |-> "none",
             result |-> "none", arg |-> NoArg]

\* A call slot that is not used.
OffCall == [IdleCall EXCEPT !.pc = "off"]

\* A call that is about to be made.
Pending(kind, arg) == [IdleCall EXCEPT !.kind = kind, !.arg = arg]

\* Elapsed times saturate here: one quantum past maxWaitTime.
AgeCap == maxWaitTime + Quantum

\* The key a call passes to acquireLock / releaseLock.
KeyOf(w, kind) == IF kind \in RecordOps THEN w ELSE SharedKey

(***************************************************************************)
(* UserTrackingService: acquireLock, releaseLock, tryOperation.             *)
(***************************************************************************)

\* `Date.now() - t > this.maxWaitTime`, the comparison of both exits of
\* acquireLock's loop.
ExpiredWrongUnit(elapsed) == elapsed > maxWaitTime * 1000

Expired(elapsed) == elapsed > maxWaitTime

\* `lastLockTime && (Date.now() - lastLockTime > this.maxWaitTime)`
StaleEntry(k) == fileLock[k] # 0 /\ Expired(lockTimeout[k])

\* tryOperation's classifier: error.code === 'EBUSY' or a message with 'timeout'.
Retryable(err) == err \in {"EBUSY", "timeout", LockTimeoutError}

\* `attempts < this.retryAttempts`
MayRetryInclusive(attempts) == attempts <= retryAttempts

MayRetry(attempts) == attempts < retryAttempts

\* releaseLock(k): both entries are deleted, whoever holds them.
ReleaseLock(k) ==
    /\ fileLock' = [fileLock EXCEPT ![k] = 0]
    /\ lockTimeout' = [lockTimeout EXCEPT ![k] = 0]

\* The catch block of tryOperation for call record c, which failed with err.
TryCatch(w, c, k, err) ==
    /\ ReleaseLock(k)
    /\ call' = [call EXCEPT ![w] =
            IF Retryable(err) /\ MayRetry(c.attempts)
            THEN [c EXCEPT !.pc = "backoff", !.waited = 0]
            ELSE [c EXCEPT !.pc = "failed", !.waited = 0, !.err = err]]
    /\ UNCHANGED forced

\* The two assignments that end acquireLock, and the call of operation().
Acquired(w, c, k) ==
    /\ fileLock' = [fileLock EXCEPT ![k] = w]
    /\ lockTimeout' = [lockTimeout EXCEPT ![k] = 0]
    /\ call' = [call EXCEPT ![w] =
            [c EXCEPT !.pc = "op", !.waited = 0, !.opRuns = c.opRuns + 1]]

\* One iteration of acquireLock's while loop by call w (record c), `elapsed`
\* ms after its startTime, inside tryOperation's try block.
AcquireLock(w, c, k, elapsed) ==
    IF fileLock[k] # 0
    THEN IF StaleEntry(k)
         THEN Acquired(w, c, k) /\ forced' = forced \cup {<<w, k>>}
         ELSE IF Expired(elapsed)
              THEN TryCatch(w, c, k, LockTimeoutError)
              ELSE /\ call' = [call EXCEPT ![w] =
                          [c EXCEPT !.pc = "acquire", !.waited = elapsed]]
                   /\ UNCHANGED <<fileLock, lockTimeout, forced>>
    ELSE Acquired(w, c, k) /\ UNCHANGED forced

\* tryOperation(operation) called directly with a function the callers share.
CallTryOperation(w) ==
    /\ call[w].pc = "idle" /\ call[w].kind = "tryOperation"
    /\ AcquireLock(w, call[w], SharedKey, 0)
    /\ UNCHANGED <<storeVars, timeVars, sideVars, chatVars, turnVars>>

\* ensureInitialized(): after a failed trackUser (initialized = false) init()
\* builds a new workbook from the file.
EnsureInitialized ==
    /\ workbook' = IF initialized THEN workbook ELSE file
    /\ initialized' = TRUE
    /\ UNCHANGED file

\* A record-store operation: trackUser, trackObjection, trackFreeConsultation
\* or getStats calls ensureInitialized and wraps a fresh closure in
\* tryOperation.
CallRecordOp(w) ==
    /\ call[w].pc = "idle" /\ call[w].kind \in RecordOps
    /\ EnsureInitialized
    /\ AcquireLock(w, call[w], KeyOf(w, call[w].kind), 0)
    /\ UNCHANGED <<timeVars, sideVars, chatVars, turnVars>>

\* The sleep between two polls of acquireLock ends.
Poll(w) ==
    /\ call[w].pc = "acquire"
    /\ AcquireLock(w, call[w], KeyOf(w, call[w].kind), call[w].waited)
    /\ UNCHANGED <<storeVars, timeVars, sideVars, chatVars, turnVars>>

\* The backoff sleep of tryOperation's catch block ends: tryOperation(operation, attempts + 1).
Backoff(w) ==
    /\ call[w].pc = "backoff"
    /\ AcquireLock(w, [call[w] EXCEPT !.attempts = call[w].attempts + 1],
                   KeyOf(w, call[w].kind), 0)
    /\ UNCHANGED <<storeVars, timeVars, sideVars, chatVars, turnVars>>

\* The shared operation() resolves: releaseLock, return result.
OpReturns(w) ==
    /\ call[w].pc = "op" /\ call[w].kind = "tryOperation"
    /\ ReleaseLock(SharedKey)
    /\ call' = [call EXCEPT ![w].pc = "done", ![w].result = "ok"]
    /\ UNCHANGED <<forced, storeVars, timeVars, sideVars, chatVars, turnVars>>

\* The shared operation() rejects.
OpThrows(w) ==
    /\ call[w].pc = "op" /\ call[w].kind = "tryOperation"
    /\ \E err \in call[w].arg.rejects : TryCatch(w, call[w], SharedKey, err)
    /\ UNCHANGED <<storeVars, timeVars, sideVars, chatVars, turnVars>>

\* The shared operation() never settles: its caller holds the lock for good.
OpHangs(w) ==
    /\ call[w].pc = "op" /\ call[w].kind = "tryOperation"
    /\ call' = [call EXCEPT ![w].pc = "hung"]
    /\ UNCHANGED <<fileLock, lockTimeout, forced, storeVars, timeVars, sideVars, chatVars, turnVars>>

\* Time passes: every elapsed time of the lock maps grows by one quantum.
Tick ==
    /\ lockTimeout' = [k \in LockKeys |->
            IF fileLock[k] # 0 THEN Min(lockTimeout[k] + Quantum, AgeCap) ELSE 0]
    /\ call' = [w \in Calls |->
            IF call[w].pc = "acquire"
            THEN [call[w] EXCEPT !.waited = Min(call[w].waited + Quantum, AgeCap)]
            ELSE call[w]]
    /\ UNCHANGED <<fileLock, forced, storeVars, timeVars, sideVars, chatVars, turnVars>>

(***************************************************************************)
(* UserTrackingService: the record-store operations and saveWorkbook.       *)
(***************************************************************************)

EmptyWorkbook ==
    [users      |-> [p \in Phones |-> 0],
     leads      |-> [pd \in Phones \X Days |-> <<>>],
     objections |-> [p \in Phones |-> 0],
     offers     |-> [p \in Phones |-> 0]]

\* `userData.symptoms?.length > 0 || userData.location`
HasLeadData(d) == Len(d.symptoms) > 0 \/ d.location # NoLocation

\* A scan that finds no row whatever the sheet holds.
ExistingLeadIgnored(rows) == FALSE

\* existingLead after the scan of the Leads rows of today's date and this
\* phone.
ExistingLead(rows) == Len(rows) > 0

\* The row trackUser adds to the Leads sheet (its symptoms and location cells).
LeadRow(d) == [symptoms |-> d.symptoms, location |-> d.location]

\* A trackUser body that also appends the Leads row a second time.
TrackUserBodyTwice(wb, d, day) ==
    [wb EXCEPT !.users[d.phone] = @ + 2,
               !.leads[<<d.phone, day>>] =
                    IF HasLeadData(d) THEN @ \o <<LeadRow(d), LeadRow(d)>> ELSE @]

\* trackUser's closure up to `await this.saveWorkbook()`: the row of the user
\* is added with interactions 1 or its interactions are incremented; a Leads
\* row is added when the data has symptoms or a location and no row of
\* today's date and this phone exists. (The source sheet, 'Organic Users' or
\* 'Pauta', is chosen by campaignId and is one sheet here.)
TrackUserBody(wb, d, day) ==
    [wb EXCEPT !.users[d.phone] = @ + 1,
               !.leads[<<d.phone, day>>] =
                    IF HasLeadData(d) /\ ~ExistingLead(@)
                    THEN Append(@, LeadRow(d)) ELSE @]

\* A trackObjection body that records one objection per phone only.
TrackObjectionBodyDedup(wb, d) ==
    [wb EXCEPT !.objections[d.phone] = IF @ = 0 THEN 1 ELSE @]

\* trackObjection's closure up to saveWorkbook: one row is appended.
TrackObjectionBody(wb, d) == [wb EXCEPT !.objections[d.phone] = @ + 1]

\* trackFreeConsultation's closure up to saveWorkbook: one row is appended.
TrackFreeConsultationBody(wb, d) == [wb EXCEPT !.offers[d.phone] = @ + 1]

BodyOf(kind, wb, d, day) ==
    CASE kind = "trackUser" -> TrackUserBody(wb, d, day)
      [] kind = "trackObjection" -> TrackObjectionBody(wb, d)
      [] kind = "trackFreeConsultation" -> TrackFreeConsultationBody(wb, d)
      [] OTHER -> wb

\* The closure of a record-store operation starts: its synchronous part runs
\* up to the first writeFile of saveWorkbook. getStats only reads, catches
\* its own errors and returns.
RunBody(w) ==
    /\ call[w].pc = "op" /\ call[w].kind \in RecordOps
    /\ workbook' = BodyOf(call[w].kind, workbook, call[w].arg, TrackDay)
    /\ IF call[w].kind = "getStats"
       THEN /\ ReleaseLock(w)
            /\ call' = [call EXCEPT ![w].pc = "done", ![w].result = "stats"]
       ELSE /\ call' = [call EXCEPT ![w].pc = "save", ![w].saveAttempts = 0]
            /\ UNCHANGED <<fileLock, lockTimeout>>
    /\ UNCHANGED <<forced, file, initialized, timeVars, sideVars, chatVars, turnVars>>

\* saveWorkbook: `attempts === maxAttempts` after a failed writeFile.
SaveGivesUp(attempts) == attempts = saveMaxAttempts

\* workbook.xlsx.writeFile (or ensureDirectoryExists) settles inside
\* saveWorkbook's loop. Success writes the workbook to the file and ends the
\* operation, and tryOperation releases the lock; the last failure is
\* rethrown through the catch block of the closure (trackUser's sets
\* initialized = false) into tryOperation's catch block.
WriteFile(w) ==
    /\ call[w].pc = "save"
    /\ \E outcome \in {"ok"} \cup call[w].arg.rejects :
        LET c == [call[w] EXCEPT !.writes = @ + 1]
        IN  IF outcome = "ok"
            THEN /\ ReleaseLock(w)
                 /\ call' = [call EXCEPT ![w] = [c EXCEPT !.pc = "done", !.result = "ok"]]
                 /\ file' = workbook
                 /\ UNCHANGED <<forced, initialized>>
            ELSE IF SaveGivesUp(c.saveAttempts + 1)
                 THEN /\ TryCatch(w, [c EXCEPT !.saveAttempts = @ + 1], w, outcome)
                      /\ initialized' = (initialized /\ c.kind # "trackUser")
                      /\ UNCHANGED file
                 ELSE /\ call' = [call EXCEPT ![w] =
                              [c EXCEPT !.pc = "savesleep", !.saveAttempts = @ + 1]]
                      /\ UNCHANGED <<fileLock, lockTimeout, forced, file, initialized>>
    /\ UNCHANGED <<workbook, timeVars, sideVars, chatVars, turnVars>>

\* saveWorkbook's backoff sleep ends and `while (attempts < maxAttempts)` is
\* evaluated: the next writeFile is issued, or the function falls off its end
\* and the operation completes.
SaveRetry(w) ==
    /\ call[w].pc = "savesleep"
    /\ IF call[w].saveAttempts < saveMaxAttempts
       THEN /\ call' = [call EXCEPT ![w].pc = "save"]
            /\ UNCHANGED <<fileLock, lockTimeout>>
       ELSE /\ ReleaseLock(w)
            /\ call' = [call EXCEPT ![w].pc = "done", ![w].result = "ok"]
    /\ UNCHANGED <<forced, storeVars, timeVars, sideVars, chatVars, turnVars>>

(***************************************************************************)
(* OpenAIService.generateResponse.                                          *)
(***************************************************************************)

\* What the handlers read of a provider error: error.status and error.code.
ProviderErrors ==
    {[status |-> 429, code |-> "rate_limit_exceeded"],
     [status |-> 500, code |-> "none"],
     [status |-> 503, code |-> "none"],
     [status |-> 400, code |-> "context_length_exceeded"],
     [status |-> 401, code |-> "invalid_api_key"],
     [status |-> 0,   code |-> "none"]}

\* The fixed strings generateResponse returns once its attempts are used up.
FallbackTooLong == "Tu mensaje es demasiado largo."

FallbackHighDemand == "Estamos experimentando mucha demanda."

FallbackConfig == "Lo siento, hay un problema de configuracion."

FallbackGeneric == "Lo siento, hubo un problema al procesar tu consulta."

Fallbacks == {FallbackTooLong, FallbackHighDemand, FallbackConfig, FallbackGeneric}

FallbackFor(code) ==
    CASE code = "context_length_exceeded" -> FallbackTooLong
      [] code = "rate_limit_exceeded" -> FallbackHighDemand
      [] code = "invalid_api_key" -> FallbackConfig
      [] OTHER -> FallbackGeneric

\* The value of `completion.choices[0].message.content` of a successful call.
Content == "content"

\* What a JavaScript function returns when it falls off its end.
Undefined == "undefined"

\* generateResponse(userMessage) is called: the first request is issued.
CallGenerateResponse(w) ==
    /\ call[w].pc = "idle" /\ call[w].kind = "generateResponse"
    /\ call' = [call EXCEPT ![w].pc = "request", ![w].opRuns = 1]
    /\ UNCHANGED <<fileLock, lockTimeout, forced, storeVars, timeVars, sideVars, chatVars, turnVars>>

\* The catch block of generateResponse's loop for error e, `attempts` already
\* incremented: the record of the call after it. Status 429, 500 and 503 sleep
\* and `continue`; any other error returns a fallback on the last attempt and
\* sleeps otherwise.
AfterProviderError(c, e) ==
    LET n == c.attempts + 1 IN
    IF e.status \in {429, 500, 503}
    THEN [c EXCEPT !.attempts = n, !.pc = "aisleep"]
    ELSE IF n = aiRetryAttempts
         THEN [c EXCEPT !.attempts = n, !.pc = "returned", !.err = e.code,
                        !.result = FallbackFor(e.code)]
         ELSE [c EXCEPT !.attempts = n, !.pc = "aisleep"]

\* openai.chat.completions.create settles.
ProviderSettles(w) ==
    /\ call[w].pc = "request"
    /\ \/ call' = [call EXCEPT ![w].pc = "returned", ![w].result = Content]
       \/ \E e \in ProviderErrors :
            call' = [call EXCEPT ![w] = AfterProviderError(call[w], e)]
    /\ UNCHANGED <<fileLock, lockTimeout, forced, storeVars, timeVars, sideVars, chatVars, turnVars>>

\* The sleep ends and `while (attempts < this.retryAttempts)` is evaluated:
\* another request, or the loop ends and the function returns nothing.
AiSleepEnds(w) ==
    /\ call[w].pc = "aisleep"
    /\ call' = [call EXCEPT ![w] =
            IF call[w].attempts < aiRetryAttempts
            THEN [call[w] EXCEPT !.pc = "request", !.opRuns = @ + 1]
            ELSE [call[w] EXCEPT !.pc = "returned", !.result = Undefined]]
    /\ UNCHANGED <<fileLock, lockTimeout, forced, storeVars, timeVars, sideVars, chatVars, turnVars>>

(***************************************************************************)
(* WhatsAppService.sendMessage.                                             *)
(***************************************************************************)

\* sendMessage(to, message) is called; `ready` is `this.client && this.isReady`.
CallSendMessage(w) ==
    /\ call[w].pc = "idle" /\ call[w].kind = "sendMessage"
    /\ LET ready == isReady IN
        call' = [call EXCEPT ![w] =
            IF ready
            THEN [call[w] EXCEPT !.pc = "sending", !.opRuns = 1]
            ELSE [call[w] EXCEPT !.pc = "thrown", !.err = "not ready"]]
    /\ UNCHANGED <<fileLock, lockTimeout, forced, storeVars, timeVars, sideVars, chatVars, turnVars>>

\* A sleep of one second after every failed attempt.
SendBackoffFixed(retries) == 1000

\* `1000 * retries`, the ms of the sleep after a failed attempt.
SendBackoff(retries) == 1000 * retries

\* client.sendMessage settles: return on success; on failure retries++ and
\* the error is thrown when retries === maxRetries, else sleep 1000 * retries
\* (kept in `waited`).
SendSettles(w) ==
    /\ call[w].pc = "sending"
    /\ \/ call' = [call EXCEPT ![w].pc = "returned", ![w].result = "sent"]
       \/ call' = [call EXCEPT ![w] =
            IF call[w].attempts + 1 = maxRetries
            THEN [call[w] EXCEPT !.attempts = @ + 1, !.pc = "thrown", !.err = "send failed"]
            ELSE [call[w] EXCEPT !.attempts = @ + 1, !.pc = "sendsleep",
                                 !.waited = SendBackoff(call[w].attempts + 1)]]
    /\ UNCHANGED <<fileLock, lockTimeout, forced, storeVars, timeVars, sideVars, chatVars, turnVars>>

\* The linear backoff sleep ends and `while (retries < maxRetries)` is
\* evaluated: the next attempt, or the function falls off its end.
SendSleepEnds(w) ==
    /\ call[w].pc = "sendsleep"
    /\ call' = [call EXCEPT ![w] =
            IF call[w].attempts < maxRetries
            THEN [call[w] EXCEPT !.pc = "sending", !.opRuns = @ + 1]
            ELSE [call[w] EXCEPT !.pc = "returned", !.result = Undefined]]
    /\ UNCHANGED <<fileLock, lockTimeout, forced, storeVars, timeVars, sideVars, chatVars, turnVars>>

(***************************************************************************)
(* WhatsAppService: the connection and its reconnection timer.              *)
(***************************************************************************)

RECURSIVE Pow(_, _)
\* Math.pow(b, e) for a natural e.
Pow(b, e) == IF e = 0 THEN 1 ELSE b * Pow(b, e - 1)

\* A delay that grows by RECONNECT_DELAY with every attempt.
ReconnectDelayLinear(n) == RECONNECT_DELAY * n

\* `this.RECONNECT_DELAY * Math.pow(2, this.reconnectAttempts - 1)`, with n
\* the counter after its increment.
ReconnectDelay(n) == RECONNECT_DELAY * Pow(2, n - 1)

\* A cap that lets one more attempt through.
BelowCapInclusive(n) == n <= MAX_RECONNECT_ATTEMPTS

\* `this.reconnectAttempts < this.MAX_RECONNECT_ATTEMPTS`
BelowCap(n) == n < MAX_RECONNECT_ATTEMPTS

\* handleConnectionError(error): not ready; below the cap the counter is
\* incremented, a pending timer is cleared and a timer is set; at the cap
\* the error is only logged.
HandleConnectionError ==
    /\ isReady' = FALSE
    /\ IF BelowCap(reconnectAttempts)
       THEN /\ Len(scheduled) < MaxScheduled
            /\ reconnectAttempts' = reconnectAttempts + 1
            /\ connectionTimeout' =
                    [armed |-> TRUE, attempt |-> reconnectAttempts + 1,
                     delay |-> ReconnectDelay(reconnectAttempts + 1)]
            /\ scheduled' = Append(scheduled,
                    <<reconnectAttempts + 1, ReconnectDelay(reconnectAttempts + 1)>>)
       ELSE UNCHANGED <<reconnectAttempts, connectionTimeout, scheduled>>

\* client 'disconnected': isReady = false, then handleDisconnection, which
\* calls handleConnectionError.
Disconnected ==
    /\ HandleConnectionError
    /\ UNCHANGED <<reconnecting, sweepVars, callVars, chatVars, turnVars, timeVars, budget>>

\* client 'error' with a message that includes 'timeout' or 'connection'.
ConnectionError ==
    /\ HandleConnectionError
    /\ UNCHANGED <<reconnecting, sweepVars, callVars, chatVars, turnVars, timeVars, budget>>

\* client 'auth_failure': isReady = false, then handleAuthFailure.
AuthFailure ==
    /\ isReady' = FALSE
    /\ UNCHANGED <<reconnectAttempts, connectionTimeout, reconnecting, scheduled,
                   sweepVars, callVars, chatVars, turnVars, timeVars, budget>>

\* client 'ready'.
Ready ==
    /\ isReady' = TRUE
    /\ UNCHANGED <<reconnectAttempts, connectionTimeout, reconnecting, scheduled,
                   sweepVars, callVars, chatVars, turnVars, timeVars, budget>>

\* The reconnection timer fires: its callback calls initialize() and awaits
\* it.
ReconnectTimerFires ==
    /\ connectionTimeout.armed
    /\ reconnecting < MaxInFlight
    /\ connectionTimeout' = [connectionTimeout EXCEPT !.armed = FALSE]
    /\ reconnecting' = reconnecting + 1
    /\ UNCHANGED <<isReady, reconnectAttempts, scheduled, sweepVars, callVars, chatVars,
                   turnVars, timeVars, budget>>

\* initialize() of a fired timer resolves: isReady = true in initialize, then
\* the callback resets the counter.
ReconnectSucceeds ==
    /\ reconnecting > 0
    /\ reconnecting' = reconnecting - 1
    /\ reconnectAttempts' = 0
    /\ isReady' = TRUE
    /\ UNCHANGED <<connectionTimeout, scheduled, sweepVars, callVars, chatVars,
                   turnVars, timeVars, budget>>

\* initialize() of a fired timer rejects: the callback calls
\* handleConnectionError.
ReconnectFails ==
    /\ reconnecting > 0
    /\ reconnecting' = reconnecting - 1
    /\ HandleConnectionError
    /\ UNCHANGED <<sweepVars, callVars, chatVars, turnVars, timeVars, budget>>

(***************************************************************************)
(* WhatsAppService.handleIncomingMessage.                                   *)
(***************************************************************************)

Msgs == 1..NMsgs

\* One incoming message: its chat (message.from), where its
\* handleIncomingMessage invocation is suspended, the ms elapsed since it
\* arrived, the state of the setTimeout that deletes the processing lock, the
\* ms between the previous fragment of its chat and its arrival (-1: none),
\* whether a turn of its chat was in progress when it arrived, and the ms
\* elapsed since client.sendMessage delivered a text for it (-1: none was).
NewMsg == [chat |-> 0, pc |-> "new", age |-> 0, timer |-> "none", gap |-> -1,
           duringTurn |-> FALSE, sent |-> -1]

\* Elapsed times of a chat saturate at the largest threshold they meet.
ChatAgeCap == PROCESSING_TIMEOUT

\* The invocations that are past the processingLock check and not yet in
\* their finally block.
InFlight == {"processing", "sending", "errsend"}

Arrived(m) == msg[m].pc # "new"

\* The fragments of chat c that have arrived.
FragmentsOf(c) == {m \in Msgs : Arrived(m) /\ msg[m].chat = c}

\* ms since the latest fragment of chat c arrived (-1: there is none).
SinceLastFragment(c) ==
    IF FragmentsOf(c) = {} THEN -1
    ELSE LET last == CHOOSE m \in FragmentsOf(c) : \A n \in FragmentsOf(c) : n <= m
         IN msg[last].age

\* handleIncomingMessage(message) is called by client.on('message'). Inside the
\* try block a chat whose processingLock entry is set makes it return at once,
\* and the finally block deletes the entry on that return too. Otherwise the
\* entry is set, the PROCESSING_TIMEOUT timer is armed and the message alone is
\* handed to messageHandler.handleIncomingMessage.
Arrive(m) ==
    /\ msg[m].pc = "new"
    /\ \A n \in Msgs : n < m => Arrived(n)
    /\ \E c \in Phones :
        LET a == [NewMsg EXCEPT !.chat = c, !.gap = SinceLastFragment(c),
                     !.duringTurn = \E n \in FragmentsOf(c) : msg[n].pc \in InFlight]
        IN  IF c \in processingLock
            THEN /\ msg' = [msg EXCEPT ![m] = [a EXCEPT !.pc = "ignored"]]
                 /\ processingLock' = processingLock \ {c}
                 /\ UNCHANGED turns
            ELSE /\ msg' = [msg EXCEPT ![m] =
                        [a EXCEPT !.pc = "processing", !.timer = "armed"]]
                 /\ processingLock' = processingLock \cup {c}
                 /\ turns' = Append(turns, <<m>>)
    /\ UNCHANGED <<messageQueue, callVars, turnVars, timeVars, sideVars>>

\* The finally block: `this.processingLock.delete(chatId)`.
Finally(m) ==
    /\ msg' = [msg EXCEPT ![m].pc = "done"]
    /\ processingLock' = processingLock \ {msg[m].chat}

\* sendMessage resolved, that is a text went out to the chat, and the
\* finally block follows.
SentAndFinally(m) ==
    /\ msg' = [msg EXCEPT ![m].pc = "done", ![m].sent = 0]
    /\ processingLock' = processingLock \ {msg[m].chat}

\* messageHandler.handleIncomingMessage settles: with a response, which is
\* sent; with null, which ends the invocation; or by rejecting, which the
\* catch block hands to handleError.
HandlerReturns(m) ==
    /\ msg[m].pc = "processing"
    /\ \E outcome \in {"response", "null", "throws"} :
        CASE outcome = "response" ->
                /\ msg' = [msg EXCEPT ![m].pc = "sending"]
                /\ UNCHANGED processingLock
          [] outcome = "null" -> Finally(m)
          [] OTHER ->
                /\ msg' = [msg EXCEPT ![m].pc = "errsend"]
                /\ UNCHANGED processingLock
    /\ UNCHANGED <<messageQueue, turns, callVars, turnVars, timeVars, sideVars>>

\* sendMessage(chatId, response) settles: the invocation ends, or the catch
\* block hands the error to handleError.
ChatSendSettles(m) ==
    /\ msg[m].pc = "sending"
    /\ \/ SentAndFinally(m)
       \/ /\ msg' = [msg EXCEPT ![m].pc = "errsend"]
          /\ UNCHANGED processingLock
    /\ UNCHANGED <<messageQueue, turns, callVars, turnVars, timeVars, sideVars>>

\* handleError's sendMessage settles; its failure is only logged.
ErrorSent(m) ==
    /\ msg[m].pc = "errsend"
    /\ \/ SentAndFinally(m)
       \/ Finally(m)
    /\ UNCHANGED <<messageQueue, turns, callVars, turnVars, timeVars, sideVars>>

\* The timer armed when the lock was set fires: the entry of the chat is
\* deleted, whichever invocation set it.
LockTimerFires(m) ==
    /\ msg[m].timer = "armed"
    /\ msg[m].age >= PROCESSING_TIMEOUT
    /\ msg' = [msg EXCEPT ![m].timer = "fired"]
    /\ processingLock' = processingLock \ {msg[m].chat}
    /\ UNCHANGED <<messageQueue, turns, callVars, turnVars, timeVars, sideVars>>

\* Time passes for the chats.
TickChat ==
    /\ msg' = [m \in Msgs |->
            IF Arrived(m)
            THEN [msg[m] EXCEPT !.age = Min(msg[m].age + ChatQuantum, ChatAgeCap),
                                !.sent = IF @ < 0 THEN @
                                         ELSE Min(@ + ChatQuantum, ChatAgeCap)]
            ELSE msg[m]]
    /\ UNCHANGED <<processingLock, messageQueue, turns, callVars, turnVars, timeVars, sideVars>>

(***************************************************************************)
(* ConversationStateService.                                                *)
(***************************************************************************)

CONVERSATION_STATES ==
    {"INITIAL", "WAITING_NAME", "WAITING_LOCATION", "WAITING_SYMPTOMS",
     "COLLECTING_INFO", "SCHEDULING", "FINISHED"}

\* The entry of a counterpart in the conversations Map: `exists` is
\* conversations.has(userId); name and location are "is set"; symptoms is the
\* list; lastUpdate is the day isLeadProcessedToday derives from the
\* timestamp. timed, idle and stamp are the counterpart's entry of the
\* lastInteraction Map: lastInteraction.has(userId), the ms elapsed since the
\* timestamp, and whether the value is a Date or the string JSON made of it.
NoConversation ==
    [exists |-> FALSE, state |-> "INITIAL", name |-> FALSE, location |-> FALSE,
     symptoms |-> <<>>, lastUpdate |-> 0, hasBeenGreeted |-> FALSE,
     leadProcessed |-> FALSE, timed |-> FALSE, idle |-> 0, stamp |-> "Date"]

\* initializeConversation(userId) on local day `day`: conversations.set, then
\* updateLastInteraction.
InitializeConversation(day) ==
    [NoConversation EXCEPT !.exists = TRUE, !.lastUpdate = day, !.timed = TRUE]

\* conversations.size, with n tracked counterparts besides those of Phones.
Size(convs, n) == Cardinality({p \in Phones : convs[p].exists}) + n

\* A ceiling test that lets one more conversation in.
AtCapacityExclusive(size) == size > maxConcurrentConversations

\* `this.conversations.size >= this.maxConcurrentConversations`
AtCapacity(size) == size >= maxConcurrentConversations

\* getCurrentState(userId) throws 'Maximum concurrent conversations limit
\* reached'.
CapacityExceeded(convs, p, n) == ~convs[p].exists /\ AtCapacity(Size(convs, n))

\* getCurrentState(userId) when it does not throw: the Map after the call,
\* which creates the entry of an unknown counterpart.
GetCurrentState(convs, p, day) ==
    IF convs[p].exists THEN convs
    ELSE [convs EXCEPT ![p] = InitializeConversation(day)]

\* validateState: `CONVERSATION_STATES[state.state]` is defined.
ValidState(newState) == newState \in CONVERSATION_STATES

\* updateState(userId, newState, additionalData) when it does not throw: the
\* Map after the call. additionalData overrides the current data and
\* lastUpdate is stamped.
UpdateState(convs, p, newState, additionalData, day) ==
    LET cur == GetCurrentState(convs, p, day)[p]
        merged == [f \in DOMAIN cur |->
                      IF f \in DOMAIN additionalData THEN additionalData[f] ELSE cur[f]]
    IN  [convs EXCEPT ![p] = [merged EXCEPT !.state = newState, !.lastUpdate = day,
                                            !.timed = TRUE, !.idle = 0,
                                            !.stamp = "Date"]]

\* isFirstTimeUser(userId)
IsFirstTimeUser(convs, p) == ~convs[p].exists

\* isLeadProcessedToday(userId) on a Map that has the entry: the flag is set
\* and lastUpdate falls on the day derived from now.
IsLeadProcessedToday(c, day) == c.leadProcessed /\ c.lastUpdate = day

\* markLeadAsProcessed(userId)
MarkLeadAsProcessed(convs, p, day) ==
    UpdateState(convs, p, GetCurrentState(convs, p, day)[p].state,
                [leadProcessed |-> TRUE], day)

\* markAsGreeted(userId)
MarkAsGreeted(convs, p, day) ==
    UpdateState(convs, p, GetCurrentState(convs, p, day)[p].state,
                [hasBeenGreeted |-> TRUE], day)

\* A reset that forgets the conversation and keeps its timestamp.
ResetStateConversationOnly(convs, p) ==
    [convs EXCEPT ![p] = [NoConversation EXCEPT !.timed = TRUE, !.idle = convs[p].idle,
                                                !.stamp = convs[p].stamp]]

\* resetState(userId): both Maps forget the counterpart.
ResetState(convs, p) == [convs EXCEPT ![p] = NoConversation]

(***************************************************************************)
(* ConversationStateService: persistence and the sweep of idle              *)
(* conversations.                                                           *)
(***************************************************************************)

\* `now - timestamp > this.conversationTimeout`: a number minus a Date is the
\* elapsed ms; a number minus the ISO string of a Date is NaN, and NaN > n is
\* false.
Inactive(c) == c.stamp = "Date" /\ c.idle > conversationTimeout

\* JSON.stringify of the two Maps: every Date becomes its ISO string.
Stringify(convs) ==
    [p \in Phones |-> IF convs[p].exists THEN [convs[p] EXCEPT !.stamp = "string"]
                                         ELSE convs[p]]

NoSnapshot == [exists |-> FALSE, conversations |-> [p \in Phones |-> NoConversation]]

\* persistStates(): writeFileSync of both Maps; an error is only logged.
PersistStates(file0, convs, written) ==
    IF written THEN [exists |-> TRUE, conversations |-> Stringify(convs)] ELSE file0

\* loadPersistedStates(): both Maps are replaced by what JSON.parse returns,
\* when the file exists.
LoadPersistedStates(file0) ==
    IF file0.exists THEN file0.conversations ELSE [p \in Phones |-> NoConversation]

\* The orders in which lastInteraction.entries() can yield the counterparts.
Orders == {o \in [1..NPhones -> Phones] : \A i, j \in 1..NPhones : o[i] = o[j] => i = j}

\* The loop of cleanupInactiveConversations over the entries in `order`: the
\* Map it leaves and the snapshots it takes on the way.
RECURSIVE CleanupFrom(_, _)
CleanupFrom(convs, order) ==
    IF order = <<>> THEN [conversations |-> convs, snapshots |-> <<>>]
    ELSE LET p == Head(order)
             c == convs[p]
             marked == [convs EXCEPT ![p].state = "FINISHED"]
             rest == CleanupFrom([convs EXCEPT ![p] = NoConversation], Tail(order))
         IN  IF c.timed /\ Inactive(c)
             THEN [conversations |-> rest.conversations,
                   snapshots |-> (IF c.exists /\ c.state # "FINISHED"
                                  THEN <<Stringify(marked)>>
                                  ELSE <<>>) \o rest.snapshots]
             ELSE CleanupFrom(convs, Tail(order))

\* What is kept of a run of the sweep: the counterparts that were tracked
\* with a last interaction older than the timeout, those it removed, those
\* that one of its snapshots holds marked FINISHED, and whether the file
\* could be written.
NoSweep == [overdue |-> {}, evicted |-> {}, snapshot |-> {}, written |-> FALSE]

\* One run of cleanupInactiveConversations (the hourly timer).
CleanupInactiveConversations ==
    /\ \E order \in Orders, written \in BOOLEAN :
          LET r == CleanupFrom(conversations, order)
          IN  /\ conversations' = r.conversations
              /\ persisted' = IF r.snapshots = <<>> THEN persisted
                              ELSE PersistStates(persisted,
                                       [p \in Phones |-> r.snapshots[Len(r.snapshots)][p]],
                                       written)
              /\ sweep' =
                    [overdue |-> {p \in Phones : /\ conversations[p].exists
                                                 /\ conversations[p].idle > conversationTimeout},
                     evicted |-> {p \in Phones : /\ conversations[p].exists
                                                 /\ ~r.conversations[p].exists},
                     snapshot |-> {p \in Phones : \E i \in 1..Len(r.snapshots) :
                                                    /\ r.snapshots[i][p].exists
                                                    /\ r.snapshots[i][p].state = "FINISHED"},
                     written |-> written]
    /\ UNCHANGED <<turn, decision, leadDays, served, faults, others, stateOp, callVars,
                   chatVars, timeVars, connVars, budget>>

\* One run of persistStates (the 5-minute timer).
PersistTimer ==
    /\ \E written \in BOOLEAN :
          persisted' = PersistStates(persisted, conversations, written)
    /\ UNCHANGED <<sweep, turnVars, callVars, chatVars, timeVars, connVars, budget>>

\* The process is started again: the constructor of ConversationStateService
\* runs loadPersistedStates.
Restart ==
    /\ conversations' = LoadPersistedStates(persisted)
    /\ UNCHANGED <<turn, decision, leadDays, served, faults, others, stateOp, sweepVars,
                   callVars, chatVars, timeVars, connVars, budget>>

Older(c) == IF c.timed THEN [c EXCEPT !.idle = Min(c.idle + IdleQuantum, IdleCap)] ELSE c

\* IdleQuantum ms pass: every timestamp, in memory and in the file, is that
\* much older.
IdleTick ==
    /\ conversations' = [p \in Phones |-> Older(conversations[p])]
    /\ persisted' = [persisted EXCEPT
                        !.conversations = [p \in Phones |-> Older(persisted.conversations[p])]]
    /\ UNCHANGED <<sweep, turn, decision, leadDays, served, faults, others, stateOp,
                   callVars, chatVars, timeVars, connVars, budget>>

(***************************************************************************)
(* MessageHandler.handleIncomingMessage.                                    *)
(***************************************************************************)

Turns == 1..NTurns

\* What extractUserData returns: whether a name and a location are known, the
\* symptoms list, objection_detected and hasNewData.
NoData == [name |-> FALSE, location |-> FALSE, symptoms |-> <<>>,
           objection |-> FALSE, hasNewData |-> FALSE]

\* One invocation of MessageHandler.handleIncomingMessage: where it is
\* suspended, its userId, isFirstTimeUser, the conversation data read at the
\* start of extractUserData, the parsed extraction answer and the extracted
\* data; and what it did: whether the answer failed to parse, whether the
\* Leads sheet had a row of this phone and day when it started, the calls of
\* userTrackingService.trackObjection / trackFreeConsultation / trackUser (for
\* the lead) it made and how they ended, whether the image block threw,
\* whether the first-time tracking succeeded, whether the provider gave a
\* response, what it returned and when.
IdleTurn ==
    [pc |-> "idle", phone |-> 0, first |-> FALSE, cur |-> NoData,
     answer |-> NoData, ex |-> NoData, parseFailed |-> FALSE, hadLead |-> FALSE,
     objectionsBefore |-> 0, offersBefore |-> 0,
     objectionTries |-> 0, objectionCalls |-> 0, objectionOk |-> FALSE,
     offerTries |-> 0, offerCalls |-> 0, offerOk |-> FALSE,
     leadCalled |-> FALSE, leadOk |-> FALSE,
     imageFailed |-> FALSE, firstOk |-> FALSE, responded |-> FALSE,
     reply |-> "none", day |-> 0, early |-> FALSE]

\* What the extraction request can answer (the parsed JSON): a location,
\* symptoms, objection_detected, hasNewData; the counterparts do not give
\* their names.
Extractions ==
    [name : {FALSE}, location : BOOLEAN,
     symptoms : {<<>>} \cup {<<s>> : s \in Symptoms},
     objection : BOOLEAN, hasNewData : BOOLEAN]

\* extractUserData's result for parsed answer e and current data cur.
CombineExtracted(e, cur) ==
    [name |-> e.name \/ cur.name,
     location |-> e.location \/ cur.location,
     symptoms |-> cur.symptoms \o e.symptoms,
     objection |-> e.objection,
     hasNewData |-> e.hasNewData \/ e.objection]

\* extractUserData's result when the answer does not parse.
ParseFailure(cur) ==
    [name |-> cur.name, location |-> cur.location, symptoms |-> cur.symptoms,
     objection |-> FALSE, hasNewData |-> FALSE]

\* updateConversationState(userId, extractedData): the Map after the call.
UpdateConversationState(convs, p, ex, day) ==
    LET n == IF ex.name THEN [name |-> TRUE] ELSE <<>>
        l == IF ex.location THEN [location |-> TRUE] ELSE <<>>
        s == IF Len(ex.symptoms) > 0 THEN [symptoms |-> ex.symptoms] ELSE <<>>
        o == IF ex.objection THEN [objection |-> TRUE] ELSE <<>>
        updateData == n @@ l @@ s @@ o
    IN  IF DOMAIN updateData # {}
        THEN UpdateState(convs, p, "COLLECTING_INFO", updateData, day)
        ELSE convs

\* hasRelevantData of shouldProcessLead.
HasRelevantData(ex) == Len(ex.symptoms) > 0 \/ ex.location

\* shouldProcessLead(extractedData, userId) on a Map that has the entry.
ShouldProcessLead(ex, c, day) ==
    HasRelevantData(ex) /\ ~IsLeadProcessedToday(c, day)

NoDecision == [phone |-> 0, day |-> 0, relevant |-> FALSE, already |-> FALSE,
               called |-> FALSE]

\* The errors the record store raises under a turn: not retryable ones.
TurnStoreErrors == {"other"}

\* An awaited callee of a turn settles: it fails only while failures are left,
\* and the failure is counted.
Meets(failure) ==
    /\ failure => faults < budget
    /\ faults' = IF failure THEN faults + 1 ELSE faults

\* leadData of the first-time tracking.
FirstContactData(p) ==
    [phone |-> p, symptoms |-> <<>>, location |-> PlaceholderLocation,
     rejects |-> {}]

\* leadData of processLead.
LeadData(p, ex) ==
    [phone |-> p, symptoms |-> ex.symptoms,
     location |-> IF ex.location THEN District ELSE PlaceholderLocation,
     rejects |-> {}]

\* objectionData / freeConsultationData.
ObjectionData(p) ==
    [phone |-> p, symptoms |-> <<>>, location |-> NoLocation, rejects |-> {}]

\* The workbook the next record-store operation works on.
StoreView == IF initialized THEN workbook ELSE file

\* Turn t calls a record-store operation of userTrackingService and awaits
\* it; the writes of the operation fail or not.
StartCall(t, kind, d) ==
    \E failure \in BOOLEAN :
        /\ Meets(failure)
        /\ call' = [call EXCEPT ![t] = Pending(kind,
                [d EXCEPT !.rejects = IF failure THEN TurnStoreErrors ELSE {}])]

\* The record-store operation turn t awaits has settled.
StoreSettled(t) == call[t].pc \in {"done", "failed"}

\* The awaited operation is consumed.
ClearCall(t) == call' = [call EXCEPT ![t] = OffCall]

\* A tracking call of turn record tr was made and failed.
TrackingFailed(tr) ==
    \/ tr.first /\ ~tr.firstOk
    \/ tr.objectionCalls > 0 /\ ~tr.objectionOk
    \/ tr.offerCalls > 0 /\ ~tr.offerOk
    \/ tr.leadCalled /\ ~tr.leadOk

\* A handler that returns its apology when a tracking call failed.
TurnResultStrict(tr) == IF TrackingFailed(tr) THEN "apology" ELSE "response"

\* `return response`: the tracking calls catch and log their errors, and
\* nothing of what they did is read.
TurnResult(tr) == "response"

\* The end of the turn, for turn record tr and conversations Map convs:
\* markAsGreeted for a first-time user, return response.
FinishTurn(t, tr, convs) ==
    /\ conversations' = IF tr.first
                        THEN MarkAsGreeted(convs, tr.phone, StateDay)
                        ELSE convs
    /\ turn' = [turn EXCEPT ![t] =
            [tr EXCEPT !.pc = "returned", !.reply = TurnResult(tr),
                       !.day = today, !.early = early]]

\* The turn from `if (this.shouldProcessLead(...))` on, for turn record tr and
\* the conversations Map convs: processLead is called, or the turn ends.
LeadStep(t, tr, convs) ==
    LET p == tr.phone
        cs == GetCurrentState(convs, p, StateDay)
        should == ShouldProcessLead(tr.ex, cs[p], StateDay)
    IN  /\ decision' = [phone |-> p, day |-> today,
                        relevant |-> HasRelevantData(tr.ex),
                        already |-> <<p, today>> \in leadDays,
                        called |-> should]
        /\ IF should
           THEN /\ leadDays' = leadDays \cup {<<p, today>>}
                /\ conversations' = cs
                /\ turn' = [turn EXCEPT ![t] = [tr EXCEPT !.pc = "lead"]]
           ELSE /\ FinishTurn(t, tr, cs)
                /\ UNCHANGED leadDays

\* What the handler returns.
Replies == {"response", "apology", "imageApology"}

\* A message of counterpart p, a text or a valid image, reaches the handler.
\* An image is downloaded, validated and uploaded to the media sink: when
\* that throws, the catch of the image block returns its apology. Otherwise
\* isFirstTimeUser is read, hasEverBeenGreeted creates the conversation of an
\* unknown counterpart, and a first-time counterpart is tracked with
\* trackUser.
TurnArrives(t) ==
    /\ turn[t].pc \in {"idle", "returned"}
    /\ served < MaxTurnsRun
    /\ served' = served + 1
    /\ \E p \in Phones, image \in BOOLEAN, uploaded \in BOOLEAN :
        LET first == IsFirstTimeUser(conversations, p)
            started == [IdleTurn EXCEPT
                            !.phone = p, !.first = first,
                            !.hadLead = ExistingLead(StoreView.leads[<<p, today>>]),
                            !.objectionsBefore = StoreView.objections[p],
                            !.offersBefore = StoreView.offers[p]]
        IN  /\ ~image => uploaded
            /\ IF image /\ ~uploaded
               THEN /\ Meets(TRUE)
                    /\ turn' = [turn EXCEPT ![t] =
                            [started EXCEPT !.pc = "returned", !.imageFailed = TRUE,
                                            !.reply = "imageApology",
                                            !.day = today, !.early = early]]
                    /\ UNCHANGED <<conversations, call>>
               ELSE /\ turn' = [turn EXCEPT ![t] =
                            [started EXCEPT !.pc = IF first THEN "first" ELSE "respond"]]
                    /\ conversations' = GetCurrentState(conversations, p, StateDay)
                    /\ IF first THEN StartCall(t, "trackUser", FirstContactData(p))
                                ELSE UNCHANGED <<call, faults>>
    /\ UNCHANGED <<decision, leadDays, others, stateOp, fileLock, lockTimeout,
                   forced, storeVars, timeVars, sideVars, chatVars>>

\* The first-time trackUser has settled (its error is only logged): the
\* response is requested.
FirstTracked(t) ==
    /\ turn[t].pc = "first" /\ StoreSettled(t)
    /\ turn' = [turn EXCEPT ![t].pc = "respond",
                            ![t].firstOk = (call[t].pc = "done")]
    /\ ClearCall(t)
    /\ UNCHANGED <<conversations, decision, leadDays, served, faults, others, stateOp,
                   fileLock, lockTimeout, forced, storeVars, timeVars, sideVars, chatVars>>

\* A catch block that hands the error on instead of answering.
ProcessingRethrow(err) == "none"

\* `catch (processingError)`: the error is logged and the apology is
\* returned.
ProcessingCatch(err) == "apology"

\* generateIntelligentResponse settles. Without a response the turn ends with
\* the apology of the catch block; with one, extractUserData reads the
\* current state and issues the extraction request.
ResponseArrives(t) ==
    /\ turn[t].pc = "respond"
    /\ \E ok \in BOOLEAN :
        /\ Meets(~ok)
        /\ IF ok
           THEN LET cs == GetCurrentState(conversations, turn[t].phone, StateDay)
                    c == cs[turn[t].phone]
                IN /\ conversations' = cs
                   /\ turn' = [turn EXCEPT ![t].pc = "extract",
                                 ![t].responded = TRUE,
                                 ![t].cur = [NoData EXCEPT !.name = c.name,
                                                !.location = c.location,
                                                !.symptoms = c.symptoms]]
           ELSE /\ turn' = [turn EXCEPT ![t].pc = "returned",
                                        ![t].reply = ProcessingCatch("no response"),
                                        ![t].day = today, ![t].early = early]
                /\ UNCHANGED conversations
    /\ UNCHANGED <<decision, leadDays, served, others, stateOp, callVars,
                   timeVars, sideVars, chatVars>>

\* The extraction request settles, with an answer that parses or one that
\* does not: the data is combined, the conversation is updated when
\* hasNewData, and the turn goes on to the objection tracking or to the lead
\* decision.
ExtractionArrives(t) ==
    /\ turn[t].pc = "extract"
    /\ \E parsed \in BOOLEAN, e \in Extractions :
        /\ ~parsed => e = NoData
        /\ Meets(~parsed)
        /\ Len(turn[t].cur.symptoms \o e.symptoms) <= MaxSymptoms
        /\ LET p == turn[t].phone
               ex == IF parsed THEN CombineExtracted(e, turn[t].cur)
                               ELSE ParseFailure(turn[t].cur)
               tr == [turn[t] EXCEPT !.ex = ex, !.answer = e,
                                     !.parseFailed = ~parsed]
               convs == IF ex.hasNewData
                        THEN UpdateConversationState(conversations, p, ex, StateDay)
                        ELSE conversations
           IN  IF ex.objection
               THEN /\ conversations' = convs
                    /\ turn' = [turn EXCEPT ![t] = [tr EXCEPT !.pc = "objection"]]
                    /\ UNCHANGED <<decision, leadDays>>
               ELSE LeadStep(t, tr, convs)
    /\ UNCHANGED <<served, others, stateOp, callVars, timeVars, sideVars, chatVars>>

\* MessageHandler.trackObjection: message.getContact() settles. With a
\* contact userTrackingService.trackObjection is called; without one the
\* error is logged, false is returned and trackFreeConsultation is called.
ObjectionContact(t) ==
    /\ turn[t].pc = "objection"
    /\ \E contact \in BOOLEAN :
        IF contact
        THEN /\ turn' = [turn EXCEPT ![t].pc = "objectionStore",
                                     ![t].objectionTries = @ + 1,
                                     ![t].objectionCalls = @ + 1]
             /\ StartCall(t, "trackObjection", ObjectionData(turn[t].phone))
        ELSE /\ turn' = [turn EXCEPT ![t].pc = "offer",
                                     ![t].objectionTries = @ + 1]
             /\ Meets(TRUE)
             /\ UNCHANGED call
    /\ UNCHANGED <<conversations, decision, leadDays, served, others, stateOp,
                   fileLock, lockTimeout, forced, storeVars, timeVars, sideVars, chatVars>>

\* userTrackingService.trackObjection has settled (its error is only
\* logged): trackFreeConsultation is called.
ObjectionTracked(t) ==
    /\ turn[t].pc = "objectionStore" /\ StoreSettled(t)
    /\ turn' = [turn EXCEPT ![t].pc = "offer",
                            ![t].objectionOk = (call[t].pc = "done")]
    /\ ClearCall(t)
    /\ UNCHANGED <<conversations, decision, leadDays, served, faults, others, stateOp,
                   fileLock, lockTimeout, forced, storeVars, timeVars, sideVars, chatVars>>

\* MessageHandler.trackFreeConsultation: message.getContact() settles. With a
\* contact userTrackingService.trackFreeConsultation is called; without one
\* false is returned and the lead decision follows.
OfferContact(t) ==
    /\ turn[t].pc = "offer"
    /\ \E contact \in BOOLEAN :
        IF contact
        THEN /\ turn' = [turn EXCEPT ![t].pc = "offerStore",
                                     ![t].offerTries = @ + 1,
                                     ![t].offerCalls = @ + 1]
             /\ StartCall(t, "trackFreeConsultation", ObjectionData(turn[t].phone))
             /\ UNCHANGED <<conversations, decision, leadDays>>
        ELSE /\ LeadStep(t, [turn[t] EXCEPT !.offerTries = @ + 1], conversations)
             /\ Meets(TRUE)
             /\ UNCHANGED call
    /\ UNCHANGED <<served, others, stateOp, fileLock, lockTimeout, forced,
                   storeVars, timeVars, sideVars, chatVars>>

\* userTrackingService.trackFreeConsultation has settled (its error is only
\* logged): the lead decision follows.
OfferTracked(t) ==
    /\ turn[t].pc = "offerStore" /\ StoreSettled(t)
    /\ LeadStep(t, [turn[t] EXCEPT !.offerOk = (call[t].pc = "done")], conversations)
    /\ ClearCall(t)
    /\ UNCHANGED <<served, faults, others, stateOp, fileLock, lockTimeout, forced,
                   storeVars, timeVars, sideVars, chatVars>>

\* processLead: message.getContact() settles. With a contact
\* userTrackingService.trackUser is called with the lead data; without one
\* processLead logs the error and returns false, and the handler goes on
\* with markLeadAsProcessed.
LeadContact(t) ==
    /\ turn[t].pc = "lead"
    /\ \E contact \in BOOLEAN :
        IF contact
        THEN /\ turn' = [turn EXCEPT ![t].pc = "leadStore", ![t].leadCalled = TRUE]
             /\ StartCall(t, "trackUser", LeadData(turn[t].phone, turn[t].ex))
             /\ UNCHANGED conversations
        ELSE /\ FinishTurn(t, turn[t],
                     MarkLeadAsProcessed(conversations, turn[t].phone, StateDay))
             /\ Meets(TRUE)
             /\ UNCHANGED call
    /\ UNCHANGED <<decision, leadDays, served, others, stateOp, fileLock,
                   lockTimeout, forced, storeVars, timeVars, sideVars, chatVars>>

\* userTrackingService.trackUser has settled inside processLead, which
\* returns true or logs the error and returns false: markLeadAsProcessed,
\* then the end of the turn.
LeadProcessed(t) ==
    /\ turn[t].pc = "leadStore" /\ StoreSettled(t)
    /\ FinishTurn(t, [turn[t] EXCEPT !.leadOk = (call[t].pc = "done")],
                  MarkLeadAsProcessed(conversations, turn[t].phone, StateDay))
    /\ ClearCall(t)
    /\ UNCHANGED <<decision, leadDays, served, faults, others, stateOp, fileLock,
                   lockTimeout, forced, storeVars, timeVars, sideVars, chatVars>>

\* No invocation of the handler is suspended.
Quiet == \A t \in Turns : turn[t].pc \in {"idle", "returned"}

\* Midnight in America/Lima, between two turns.
DayPasses ==
    /\ today < MaxDay
    /\ ~early
    /\ Quiet
    /\ today' = today + 1
    /\ early' = TRUE
    /\ UNCHANGED <<hostTZ, callVars, chatVars, turnVars, sideVars>>

\* 05:00 in America/Lima, between two turns.
MorningComes ==
    /\ early
    /\ Quiet
    /\ early' = FALSE
    /\ UNCHANGED <<today, hostTZ, callVars, chatVars, turnVars, sideVars>>

(***************************************************************************)
(* ConversationStateService called directly.                                *)
(***************************************************************************)

\* The last call of the service: the method, its userId and newState, the
\* local calendar day of the call and the error it threw.
NoStateOp == [op |-> "none", phone |-> 0, newState |-> "none", day |-> 0,
              threw |-> "none"]

CapacityError == "Maximum concurrent conversations limit reached"

InvalidStateError == "Invalid conversation state"

\* The newState arguments of updateState: recognized ones and one that is not.
NewStates == {"COLLECTING_INFO", "UNKNOWN"}

\* The additionalData arguments of updateState.
EmptyPatch == <<>>

Patches ==
    {EmptyPatch, [name |-> TRUE], [name |-> FALSE]}
    \cup {[symptoms |-> <<s>>] : s \in Symptoms}

\* getCurrentState(userId) for a counterpart of Phones.
GetCurrentStateCall(p) ==
    /\ IF CapacityExceeded(conversations, p, others)
       THEN /\ stateOp' = [NoStateOp EXCEPT !.op = "getCurrentState", !.phone = p,
                                            !.day = today, !.threw = CapacityError]
            /\ UNCHANGED conversations
       ELSE /\ stateOp' = [NoStateOp EXCEPT !.op = "getCurrentState", !.phone = p,
                                            !.day = today]
            /\ conversations' = GetCurrentState(conversations, p, StateDay)
    /\ UNCHANGED <<turn, decision, leadDays, served, faults, others, callVars, timeVars, sideVars,
                   chatVars>>

\* getCurrentState(userId) for a counterpart that is not tracked and not one
\* of Phones.
OtherArrives ==
    /\ IF AtCapacity(Size(conversations, others))
       THEN /\ stateOp' = [NoStateOp EXCEPT !.op = "getCurrentState",
                                            !.day = today, !.threw = CapacityError]
            /\ UNCHANGED others
       ELSE /\ stateOp' = [NoStateOp EXCEPT !.op = "getCurrentState", !.day = today]
            /\ others' = others + 1
    /\ UNCHANGED <<conversations, turn, decision, leadDays, served, faults, callVars,
                   timeVars, sideVars, chatVars>>

\* updateState(userId, newState, additionalData): getCurrentState, which
\* creates the entry of an unknown counterpart, then validateState, which
\* throws before conversations.set; a conversation set to FINISHED is
\* persisted at once.
UpdateStateCall(p, newState, additionalData) ==
    /\ ~CapacityExceeded(conversations, p, others)
    /\ IF ValidState(newState)
       THEN /\ conversations' =
                    UpdateState(conversations, p, newState, additionalData, StateDay)
            /\ stateOp' = [NoStateOp EXCEPT !.op = "updateState", !.phone = p,
                                            !.newState = newState, !.day = today]
       ELSE /\ conversations' = GetCurrentState(conversations, p, StateDay)
            /\ stateOp' = [NoStateOp EXCEPT !.op = "updateState", !.phone = p,
                                            !.newState = newState, !.day = today,
                                            !.threw = InvalidStateError]
    /\ IF newState = "FINISHED"
       THEN \E written \in BOOLEAN :
                persisted' = PersistStates(persisted, conversations', written)
       ELSE UNCHANGED persisted
    /\ UNCHANGED <<turn, decision, leadDays, served, faults, others, callVars, timeVars,
                   sweep, connVars, budget, chatVars>>

\* markLeadAsProcessed(userId)
MarkLeadAsProcessedCall(p) ==
    /\ ~CapacityExceeded(conversations, p, others)
    /\ conversations' = MarkLeadAsProcessed(conversations, p, StateDay)
    /\ stateOp' = [NoStateOp EXCEPT !.op = "markLeadAsProcessed", !.phone = p,
                                    !.day = today]
    /\ UNCHANGED <<turn, decision, leadDays, served, faults, others, callVars, timeVars, sideVars,
                   chatVars>>

\* markAsGreeted(userId)
MarkAsGreetedCall(p) ==
    /\ ~CapacityExceeded(conversations, p, others)
    /\ conversations' = MarkAsGreeted(conversations, p, StateDay)
    /\ stateOp' = [NoStateOp EXCEPT !.op = "markAsGreeted", !.phone = p,
                                    !.day = today]
    /\ UNCHANGED <<turn, decision, leadDays, served, faults, others, callVars, timeVars, sideVars,
                   chatVars>>

\* resetState(userId)
ResetStateCall(p) ==
    /\ conversations' = ResetState(conversations, p)
    /\ stateOp' = [NoStateOp EXCEPT !.op = "resetState", !.phone = p, !.day = today]
    /\ UNCHANGED <<turn, decision, leadDays, served, faults, others, callVars, timeVars,
                   sideVars, chatVars>>

(***************************************************************************)
(* Specifications.                                                          *)
(***************************************************************************)

\* The state after construction and init(): empty lock maps, a workbook with
\* headers only that is also the file, 07:00 or later in America/Lima.
InitService ==
    /\ fileLock = [k \in LockKeys |-> 0]
    /\ lockTimeout = [k \in LockKeys |-> 0]
    /\ forced = {}
    /\ workbook = EmptyWorkbook
    /\ file = EmptyWorkbook
    /\ initialized = TRUE
    /\ today = 0
    /\ early = FALSE

InitChat ==
    /\ processingLock = {}
    /\ messageQueue = [c \in Phones |-> <<>>]
    /\ msg = [m \in Msgs |-> NewMsg]
    /\ turns = <<>>

InitSweep ==
    /\ persisted = NoSnapshot
    /\ sweep = NoSweep

\* The state after setClient(client): ready, no reconnection under way.
InitConn ==
    /\ isReady = TRUE
    /\ reconnectAttempts = 0
    /\ connectionTimeout = NoTimer
    /\ reconnecting = 0
    /\ scheduled = <<>>

InitTurn ==
    /\ conversations = [p \in Phones |-> NoConversation]
    /\ turn = [t \in Turns |-> IdleTurn]
    /\ decision = NoDecision
    /\ leadDays = {}
    /\ served = 0
    /\ faults = 0
    /\ others = 0
    /\ stateOp = NoStateOp

\* The operation of a direct caller of tryOperation: it resolves, never
\* settles, or rejects with one of `rejects`.
SharedOp(rejects) == [NoArg EXCEPT !.rejects = rejects]

\* The userData of the record-store calls.
RecordArgs(rejects) ==
    {[phone |-> p, symptoms |-> f[1], location |-> f[2], rejects |-> rejects] :
        p \in Phones, f \in {<<<<>>, NoLocation>>, <<<<1>>, PlaceholderLocation>>}}

\* The calls that are made, by scenario:
\*   every caller contends for the shared key with an operation whose only
\*   rejection is not retryable;
LockScenario == {[w \in Calls |-> Pending("tryOperation", SharedOp({"other"}))]}

\*   two callers contend for the shared key with an operation that can reject
\*   with any error;
RetryScenario ==
    {[w \in Calls |-> IF w <= 2 THEN Pending("tryOperation", SharedOp(StoreErrors))
                      ELSE OffCall]}

\*   one record-store operation, with a writeFile that can reject with any
\*   error, or for trackUser with EBUSY only;
RecordScenario ==
    {[w \in Calls |-> IF w = 1 THEN Pending(kind, arg) ELSE OffCall] :
        kind \in RecordOps, arg \in RecordArgs(StoreErrors)}
    \cup {[w \in Calls |-> IF w = 1 THEN Pending("trackUser", arg) ELSE OffCall] :
            arg \in RecordArgs({"EBUSY"})}

\*   one generateResponse and one sendMessage;
ProviderScenario ==
    {[w \in Calls |-> CASE w = 1 -> Pending("generateResponse", NoArg)
                        [] w = 2 -> Pending("sendMessage", NoArg)
                        [] OTHER -> OffCall]}

\*   two record-store operations, the second with a writeFile whose only
\*   rejection is not retryable.
StoreScenario ==
    {[w \in Calls |-> CASE w = 1 -> Pending(k1, a1)
                        [] w = 2 -> Pending(k2, a2)
                        [] OTHER -> OffCall] :
        k1 \in RecordOps, k2 \in RecordOps,
        a1 \in RecordArgs(StoreErrors), a2 \in RecordArgs({"other"})}

Init ==
    /\ call \in LockScenario \cup RetryScenario \cup RecordScenario \cup ProviderScenario
    /\ hostTZ = "UTC"
    /\ InitService
    /\ InitChat
    /\ InitTurn
    /\ InitSweep
    /\ InitConn
    /\ budget = MaxFaults

Next ==
    \/ \E w \in Calls : CallTryOperation(w)
    \/ \E w \in Calls : CallRecordOp(w)
    \/ \E w \in Calls : Poll(w)
    \/ \E w \in Calls : Backoff(w)
    \/ \E w \in Calls : OpReturns(w)
    \/ \E w \in Calls : OpThrows(w)
    \/ \E w \in Calls : OpHangs(w)
    \/ \E w \in Calls : RunBody(w)
    \/ \E w \in Calls : WriteFile(w)
    \/ \E w \in Calls : SaveRetry(w)
    \/ \E w \in Calls : CallGenerateResponse(w)
    \/ \E w \in Calls : ProviderSettles(w)
    \/ \E w \in Calls : AiSleepEnds(w)
    \/ \E w \in Calls : CallSendMessage(w)
    \/ \E w \in Calls : SendSettles(w)
    \/ \E w \in Calls : SendSleepEnds(w)
    \/ Tick

\* The service calls, any interleaving.
Spec == Init /\ [][Next]_vars

\* A step of call w: the call is made, a sleep ends or an awaited promise
\* settles.
CallStep(w) ==
    \/ CallTryOperation(w) \/ CallRecordOp(w)
    \/ CallGenerateResponse(w) \/ CallSendMessage(w)
    \/ Poll(w) \/ Backoff(w)
    \/ OpReturns(w) \/ OpThrows(w) \/ OpHangs(w)
    \/ RunBody(w) \/ WriteFile(w) \/ SaveRetry(w)
    \/ ProviderSettles(w) \/ AiSleepEnds(w)
    \/ SendSettles(w) \/ SendSleepEnds(w)

\* Every sleep ends, every awaited promise settles (an operation that never
\* settles is the explicit OpHangs step) and time passes.
Fairness == WF_vars(Tick) /\ \A w \in Calls : WF_vars(CallStep(w))

FairSpec == Init /\ [][Next]_vars /\ Fairness

\* Two record-store operations side by side.
InitStore ==
    /\ call \in StoreScenario
    /\ hostTZ = "UTC"
    /\ InitService
    /\ InitChat
    /\ InitTurn
    /\ InitSweep
    /\ InitConn
    /\ budget = MaxFaults

NextStore ==
    \/ \E w \in Calls : CallRecordOp(w)
    \/ \E w \in Calls : RunBody(w)
    \/ \E w \in Calls : WriteFile(w)
    \/ \E w \in Calls : SaveRetry(w)
    \/ \E w \in Calls : Backoff(w)

SpecStore == InitStore /\ [][NextStore]_vars

\* The incoming messages of the chats.
InitChatSpec ==
    /\ call = [w \in Calls |-> OffCall]
    /\ hostTZ = "UTC"
    /\ InitService
    /\ InitChat
    /\ InitTurn
    /\ InitSweep
    /\ InitConn
    /\ budget = MaxFaults

NextChat ==
    \/ \E m \in Msgs : Arrive(m)
    \/ \E m \in Msgs : HandlerReturns(m)
    \/ \E m \in Msgs : ChatSendSettles(m)
    \/ \E m \in Msgs : ErrorSent(m)
    \/ \E m \in Msgs : LockTimerFires(m)
    \/ TickChat

SpecChat == InitChatSpec /\ [][NextChat]_vars

\* Every awaited promise of an invocation settles, timers fire, time passes;
\* whether further messages arrive is up to the counterparts.
FairChat ==
    /\ InitChatSpec
    /\ [][NextChat]_vars
    /\ WF_vars(TickChat)
    /\ \A m \in Msgs :
        /\ WF_vars(HandlerReturns(m))
        /\ WF_vars(ChatSendSettles(m))
        /\ WF_vars(ErrorSent(m))
        /\ WF_vars(LockTimerFires(m))

\* The conversational turns, with the record-store operations they await, in
\* a process of either time zone.
InitTurnSpec ==
    /\ call = [w \in Calls |-> OffCall]
    /\ hostTZ \in HostZones
    /\ InitService
    /\ InitChat
    /\ InitTurn
    /\ InitSweep
    /\ InitConn
    /\ budget = MaxFaults

NextTurn ==
    \/ \E t \in Turns : TurnArrives(t)
    \/ \E t \in Turns : FirstTracked(t)
    \/ \E t \in Turns : ResponseArrives(t)
    \/ \E t \in Turns : ExtractionArrives(t)
    \/ \E t \in Turns : ObjectionContact(t)
    \/ \E t \in Turns : ObjectionTracked(t)
    \/ \E t \in Turns : OfferContact(t)
    \/ \E t \in Turns : OfferTracked(t)
    \/ \E t \in Turns : LeadContact(t)
    \/ \E t \in Turns : LeadProcessed(t)
    \/ \E w \in Calls : CallRecordOp(w)
    \/ \E w \in Calls : RunBody(w)
    \/ \E w \in Calls : WriteFile(w)
    \/ \E w \in Calls : SaveRetry(w)
    \/ DayPasses
    \/ MorningComes

SpecTurn == InitTurnSpec /\ [][NextTurn]_vars

\* ConversationStateService called directly, in a process of either time
\* zone.
NextState ==
    \/ \E p \in Phones : GetCurrentStateCall(p)
    \/ \E p \in Phones, newState \in NewStates, additionalData \in Patches :
            UpdateStateCall(p, newState, additionalData)
    \/ \E p \in Phones : MarkLeadAsProcessedCall(p)
    \/ \E p \in Phones : MarkAsGreetedCall(p)
    \/ DayPasses
    \/ MorningComes

SpecState == InitTurnSpec /\ [][NextState]_vars

\* getCurrentState up to the ceiling of tracked conversations.
NextCapacity ==
    \/ \E p \in Phones : GetCurrentStateCall(p)
    \/ OtherArrives

SpecCapacity == InitChatSpec /\ [][NextCapacity]_vars

\* The conversations, the timers of ConversationStateService and restarts of
\* the process.
NextSweep ==
    \/ \E p \in Phones : GetCurrentStateCall(p)
    \/ \E p \in Phones : UpdateStateCall(p, "COLLECTING_INFO", EmptyPatch)
    \/ IdleTick
    \/ PersistTimer
    \/ CleanupInactiveConversations
    \/ Restart

SpecSweep == InitChatSpec /\ [][NextSweep]_vars

\* The conversational turns on one day, with up to MaxReplyFaults failures
\* of their callees.
InitReplySpec ==
    /\ call = [w \in Calls |-> OffCall]
    /\ hostTZ = "UTC"
    /\ InitService
    /\ InitChat
    /\ InitTurn
    /\ InitSweep
    /\ InitConn
    /\ budget = MaxReplyFaults

NextReply ==
    \/ \E t \in Turns : TurnArrives(t)
    \/ \E t \in Turns : FirstTracked(t)
    \/ \E t \in Turns : ResponseArrives(t)
    \/ \E t \in Turns : ExtractionArrives(t)
    \/ \E t \in Turns : ObjectionContact(t)
    \/ \E t \in Turns : ObjectionTracked(t)
    \/ \E t \in Turns : OfferContact(t)
    \/ \E t \in Turns : OfferTracked(t)
    \/ \E t \in Turns : LeadContact(t)
    \/ \E t \in Turns : LeadProcessed(t)
    \/ \E w \in Calls : CallRecordOp(w)
    \/ \E w \in Calls : RunBody(w)
    \/ \E w \in Calls : WriteFile(w)
    \/ \E w \in Calls : SaveRetry(w)

SpecReply == InitReplySpec /\ [][NextReply]_vars

\* The sweep in a process that cannot write its data directory:
\* persistStates logs the error of writeFileSync.
CleanupUnwritable == CleanupInactiveConversations /\ persisted' = persisted

\* The methods of ConversationStateService that change its two Maps, with the
\* clock of the idle sweep.
NextKeys ==
    \/ \E p \in Phones : GetCurrentStateCall(p)
    \/ \E p \in Phones, newState \in NewStates :
            UpdateStateCall(p, newState, EmptyPatch)
    \/ \E p \in Phones : MarkLeadAsProcessedCall(p)
    \/ \E p \in Phones : MarkAsGreetedCall(p)
    \/ \E p \in Phones : ResetStateCall(p)
    \/ IdleTick
    \/ CleanupUnwritable

SpecKeys == InitChatSpec /\ [][NextKeys]_vars

\* The conversational turns on one day, none of their callees failing, while
\* the clock of the idle sweep runs and the hourly sweep fires.
InitIdleSpec ==
    /\ call = [w \in Calls |-> OffCall]
    /\ hostTZ = "UTC"
    /\ InitService
    /\ InitChat
    /\ InitTurn
    /\ InitSweep
    /\ InitConn
    /\ budget = 0

\* A turn lasts far less than IdleQuantum: the clock advances between turns.
IdleBetweenTurns == Quiet /\ IdleTick

NextIdle ==
    \/ \E t \in Turns : TurnArrives(t)
    \/ \E t \in Turns : FirstTracked(t)
    \/ \E t \in Turns : ResponseArrives(t)
    \/ \E t \in Turns : ExtractionArrives(t)
    \/ \E t \in Turns : ObjectionContact(t)
    \/ \E t \in Turns : ObjectionTracked(t)
    \/ \E t \in Turns : OfferContact(t)
    \/ \E t \in Turns : OfferTracked(t)
    \/ \E t \in Turns : LeadContact(t)
    \/ \E t \in Turns : LeadProcessed(t)
    \/ \E w \in Calls : CallRecordOp(w)
    \/ \E w \in Calls : RunBody(w)
    \/ \E w \in Calls : WriteFile(w)
    \/ IdleBetweenTurns
    \/ CleanupInactiveConversations

SpecIdle == InitIdleSpec /\ [][NextIdle]_vars

\*   one sendMessage.
SendScenario ==
    {[w \in Calls |-> IF w = 1 THEN Pending("sendMessage", NoArg) ELSE OffCall]}

InitConnSpec ==
    /\ call \in SendScenario
    /\ hostTZ = "UTC"
    /\ InitService
    /\ InitChat
    /\ InitTurn
    /\ InitSweep
    /\ InitConn
    /\ budget = MaxFaults

\* The connection events, the reconnection timer and one sendMessage.
NextConn ==
    \/ Disconnected
    \/ ConnectionError
    \/ AuthFailure
    \/ Ready
    \/ ReconnectTimerFires
    \/ ReconnectSucceeds
    \/ ReconnectFails
    \/ \E w \in Calls : CallSendMessage(w)
    \/ \E w \in Calls : SendSettles(w)
    \/ \E w \in Calls : SendSleepEnds(w)

SpecConn == InitConnSpec /\ [][NextConn]_vars

(***************************************************************************)
(* Properties.                                                              *)
(***************************************************************************)

\* The invocations of chat c that are inside
\* messageHandler.handleIncomingMessage or sendMessage.
TurnsInProgress(c) ==
    {m \in Msgs : msg[m].chat = c /\ msg[m].pc \in {"processing", "sending"}}

\* C1. Single-flight per counterpart: for every chat id at most one
\* invocation of handleIncomingMessage is past the processingLock check
\* (inside messageHandler.handleIncomingMessage or sendMessage) at any moment.
C1_SingleFlight == \A c \in Phones : Cardinality(TurnsInProgress(c)) <= 1

\* Message m is part of the i-th turn handed to the message handler.
InTurn(m, i) == \E j \in DOMAIN turns[i] : turns[i][j] = m

InSomeTurn(m) == \E i \in DOMAIN turns : InTurn(m, i)

\* The fragment of the same chat that arrived last before m.
PreviousFragment(m) ==
    CHOOSE n \in Msgs : /\ n < m /\ msg[n].chat = msg[m].chat
                        /\ \A o \in Msgs : o < m /\ msg[o].chat = msg[m].chat => o <= n

\* m arrived within the quiet window after the previous fragment of its chat.
InQuietWindow(m) ==
    Arrived(m) /\ msg[m].gap >= 0 /\ msg[m].gap < MESSAGE_BUFFER_TIMEOUT

\* C2. Debounce coalescing: fragments of one counterpart that arrive within
\* the quiet window (MESSAGE_BUFFER_TIMEOUT) of each other are handed to the
\* downstream processing as one turn, joined in arrival order, and no fragment
\* is handed over more than once.
C2_DebounceCoalescing ==
    /\ \A m \in Msgs : InQuietWindow(m) =>
          \A i \in DOMAIN turns :
              /\ InTurn(PreviousFragment(m), i) <=> InTurn(m, i)
              /\ \A j \in DOMAIN turns[i] :
                    turns[i][j] = m => j > 1 /\ turns[i][j - 1] = PreviousFragment(m)
    /\ \A m \in Msgs : Cardinality({i \in DOMAIN turns : InTurn(m, i)}) <= 1

\* C3. A fragment that arrives while a previous turn of its counterpart is
\* still being processed is never lost: it is eventually processed as part of
\* a turn.
C3_FragmentNotLost == \A m \in Msgs : msg[m].duringTurn ~> InSomeTurn(m)

\* Call w is between its successful acquireLock and its releaseLock.
InCriticalSection(w) == call[w].pc \in {"op", "hung", "save", "savesleep"}

\* C4. Lock mutual exclusion: for every lock key at most one caller is inside
\* its critical section at any time, also when a holder stays in its critical
\* section longer than maxWaitTime.
C4_MutualExclusion ==
    \A k \in LockKeys :
        Cardinality({w \in Calls : InCriticalSection(w)
                                   /\ KeyOf(w, call[w].kind) = k}) <= 1

\* The record-store operations whose body is in progress.
BodiesInProgress ==
    {w \in Calls : call[w].kind \in RecordOps /\ InCriticalSection(w)}

\* C5. Record-store serialization: the bodies of the record-store operations
\* run under one shared lock, so no two of them are in progress at the same
\* time.
C5_StoreSerialized ==
    /\ Cardinality(BodiesInProgress) <= 1
    /\ \A v, w \in BodiesInProgress : KeyOf(v, call[v].kind) = KeyOf(w, call[w].kind)

\* Call h holds key k and never releases it.
HungHolder(h, k) == call[h].pc = "hung" /\ fileLock[k] = h

\* Call w is polling in acquireLock for key k.
Polling(w, k) == call[w].pc = "acquire" /\ KeyOf(w, call[w].kind) = k

\* C6 as stated: while a key is held by a holder that never releases it, every
\* caller polling for the key ends its acquireLock by force-releasing the
\* entry and acquiring the lock, never with the lock-acquisition timeout.
C6_EveryPollerAcquires ==
    [][\A w \in Calls, k \in LockKeys :
          (\E h \in Calls : HungHolder(h, k)) /\ Polling(w, k)
              => call'[w].pc \in {"acquire", "op"}]_vars

\* C6. Stale-lock liveness: the entry of a holder that never releases its key
\* is eventually removed when some caller keeps polling for the key, and a
\* caller whose poll finds the entry older than maxWaitTime force-releases it
\* and acquires the lock at that poll.
C6_StaleEntryRemoved ==
    /\ \A h \in Calls :
          (HungHolder(h, SharedKey) /\ \E w \in Calls : Polling(w, SharedKey))
              ~> (fileLock[SharedKey] # h)
    /\ [][\A w \in Calls, k \in LockKeys :
             Polling(w, k) /\ StaleEntry(k) /\ call'[w].pc # "acquire"
                 => fileLock'[k] = w /\ <<w, k>> \in forced']_vars

\* A poller has force-released the entry of a holder that never releases.
C6_Witness ==
    \E h, w \in Calls :
        /\ h # w /\ call[h].pc = "hung"
        /\ fileLock[SharedKey] = w /\ <<w, SharedKey>> \in forced

\* Call w is over: it has returned or thrown, or its operation never
\* settles (which is no wait of the service's own).
Settled(w) ==
    call[w].pc \in {"off", "done", "failed", "returned", "thrown", "hung"}

\* The counters of the retry loops stay within the loops' limits.
BoundedCounters ==
    \A w \in Calls :
        /\ call[w].kind \in RecordOps \cup {"tryOperation"} =>
              /\ call[w].attempts <= retryAttempts
              /\ call[w].opRuns <= retryAttempts + 1
              /\ call[w].saveAttempts <= saveMaxAttempts
        /\ call[w].kind = "generateResponse" =>
              call[w].attempts <= aiRetryAttempts /\ call[w].opRuns <= aiRetryAttempts
        /\ call[w].kind = "sendMessage" =>
              call[w].attempts <= maxRetries /\ call[w].opRuns <= maxRetries

\* C7. Bounded waiting: every acquireLock call ends, by acquiring the lock or
\* with the lock-acquisition timeout, and every retry loop (tryOperation,
\* saveWorkbook, generateResponse, sendMessage) ends after a bounded number
\* of attempts.
C7_BoundedWaiting ==
    /\ []BoundedCounters
    /\ <>[](\A w \in Calls : Settled(w))

\* A tryOperation has used up its retries and its last acquireLock ended with
\* the lock-acquisition timeout.
C7_Witness ==
    \E w \in Calls :
        /\ call[w].pc = "failed" /\ call[w].err = LockTimeoutError
        /\ call[w].attempts = retryAttempts

\* C8. Retry policy of tryOperation: an operation that keeps failing with a
\* retryable error (EBUSY or a 'timeout' message) is attempted exactly
\* retryAttempts times before the error is surfaced; one that fails with a
\* non-retryable error is attempted exactly once.
C8_RetryPolicy ==
    \A w \in Calls :
        call[w].pc = "failed" /\ call[w].opRuns = call[w].attempts + 1 =>
            /\ call[w].err \in {"EBUSY", "timeout"} => call[w].opRuns = retryAttempts
            /\ call[w].err = "other" /\ call[w].attempts = 0 => call[w].opRuns = 1

\* C9. Language-provider fallback: generateResponse calls the provider at
\* most retryAttempts times and, when every attempt has failed, returns one of
\* the fixed fallback strings; it never throws and never returns undefined.
C9_ProviderFallback ==
    \A w \in Calls :
        call[w].kind = "generateResponse" =>
            /\ call[w].opRuns <= aiRetryAttempts
            /\ call[w].pc # "thrown"
            /\ call[w].pc = "returned" => call[w].result \in Fallbacks \cup {Content}
            /\ call[w].pc = "returned" /\ call[w].attempts = aiRetryAttempts
                  => call[w].result \in Fallbacks

\* C10. Lead decision: on every processed turn processLead is called if and
\* only if symptoms or a location are present and no lead has been recorded
\* for the counterpart on the current local calendar day.
C10_LeadDecision ==
    decision.phone # 0 =>
        (decision.called <=> decision.relevant /\ ~decision.already)

\* A turn has returned and the clock has not been moved since.
JustReturned(t) ==
    turn[t].pc = "returned" /\ turn[t].day = today /\ turn[t].early = early

\* C11. The lead-processed flag is set only on success of the lead
\* recording: after a turn in which trackUser threw inside processLead,
\* isLeadProcessedToday of the counterpart is false.
C11_FlagOnlyOnSuccess ==
    \A t \in Turns :
        JustReturned(t) /\ turn[t].leadCalled /\ ~turn[t].leadOk =>
            ~IsLeadProcessedToday(conversations[turn[t].phone], StateDay)

\* C12. isLeadProcessedToday is true after markLeadAsProcessed on the same
\* calendar day of America/Lima and false once that calendar day has
\* advanced, with no call of the service in between.
C12_FlagFollowsCalendarDay ==
    stateOp.op = "markLeadAsProcessed" =>
        (IsLeadProcessedToday(conversations[stateOp.phone], StateDay)
            <=> today = stateOp.day)

\* C13. Per-day dedup of the store: after any sequence of trackUser calls,
\* retried ones included, the Leads sheet holds at most one row per phone
\* and date, in memory and in the file.
C13_OneLeadPerDay ==
    \A pd \in Phones \X Days :
        Len(workbook.leads[pd]) <= 1 /\ Len(file.leads[pd]) <= 1

\* Two trackUser calls with lead data for one phone have completed and the
\* file holds the row of the day.
C13_Witness ==
    \E w1 \in Calls, w2 \in Calls :
        /\ w1 # w2
        /\ call[w1].kind = "trackUser" /\ call[w2].kind = "trackUser"
        /\ call[w1].pc = "done" /\ call[w2].pc = "done"
        /\ call[w1].arg.phone = call[w2].arg.phone
        /\ HasLeadData(call[w1].arg) /\ HasLeadData(call[w2].arg)
        /\ Len(file.leads[<<call[w1].arg.phone, TrackDay>>]) = 1

\* The symptoms of sequence a are all in sequence b.
Contains(b, a) == \A j \in DOMAIN a : \E k \in DOMAIN b : b[k] = a[j]

\* C14. Scenario A: after a turn of a counterpart with no lead recorded
\* today (a first-time counterpart included) whose extraction yields
\* symptoms, and in which nothing failed, the record store holds a Leads row
\* for the phone and today with those symptoms and the lead-processed flag
\* of the counterpart is set for today.
C14_ScenarioA ==
    \A t \in Turns :
        /\ JustReturned(t) /\ turn[t].reply = "response" /\ faults = 0
        /\ ~turn[t].parseFailed /\ Len(turn[t].answer.symptoms) > 0
        /\ ~turn[t].hadLead
        => /\ \E i \in DOMAIN file.leads[<<turn[t].phone, today>>] :
                Contains(file.leads[<<turn[t].phone, today>>][i].symptoms,
                         turn[t].answer.symptoms)
           /\ IsLeadProcessedToday(conversations[turn[t].phone], StateDay)

\* trackUser call w has ended after writeFile failed twice with EBUSY and
\* succeeded at the third attempt.
BusyTwiceThenSaved(w) ==
    /\ call[w].kind = "trackUser" /\ call[w].pc = "done"
    /\ call[w].arg.rejects = {"EBUSY"}
    /\ call[w].attempts = 0 /\ call[w].saveAttempts = 2

ObjectionTurn(t) ==
    /\ turn[t].pc = "returned" /\ turn[t].reply = "response"
    /\ turn[t].ex.objection

\* C16. Objections are recorded unconditionally and without dedup: every
\* processed turn whose extraction has objection_detected invokes the
\* objection recording once and the offer recording once, whatever was
\* recorded before and also when the objection recording fails; the
\* recording adds one row to its sheet each time.
C16_ObjectionsRecorded ==
    /\ [](\A t \in Turns :
            ObjectionTurn(t) =>
                turn[t].objectionTries = 1 /\ turn[t].offerTries = 1)
    /\ [][\A w \in Calls :
            LET p == call[w].arg.phone
            IN  /\ RunBody(w) /\ call[w].kind = "trackObjection" =>
                        workbook'.objections[p] = workbook.objections[p] + 1
                /\ RunBody(w) /\ call[w].kind = "trackFreeConsultation" =>
                        workbook'.offers[p] = workbook.offers[p] + 1]_vars

\* An objection of a counterpart whose objection was already recorded has
\* been recorded, and so has the offer.
C16_Witness ==
    \E t \in Turns :
        /\ ObjectionTurn(t)
        /\ turn[t].objectionsBefore > 0
        /\ turn[t].objectionOk /\ turn[t].offerOk

\* The offer has been recorded in a turn whose objection recording failed.
C16_WitnessFailed ==
    \E t \in Turns :
        ObjectionTurn(t) /\ ~turn[t].objectionOk /\ turn[t].offerOk

\* C17. Extraction parse failure: a turn whose extraction answer does not
\* parse still returns the response, and no objection recording, no
\* processLead and no markLeadAsProcessed result from that extraction.
C17_ParseFailureInert ==
    \A t \in Turns :
        turn[t].pc = "returned" /\ turn[t].parseFailed =>
            /\ turn[t].reply = "response"
            /\ turn[t].objectionTries = 0 /\ turn[t].offerTries = 0
            /\ ~decision.called /\ ~turn[t].leadCalled

\* Sequence a is a prefix of sequence b.
IsPrefix(a, b) == Len(a) <= Len(b) /\ \A i \in DOMAIN a : a[i] = b[i]

\* C18. Symptoms are append-only: in every step of the conversation state
\* service (updateState with a patch included) the stored symptoms of every
\* counterpart before the step are a prefix of those after it.
C18_SymptomsAppendOnly ==
    [][\A p \in Phones :
          conversations[p].exists =>
              IsPrefix(conversations[p].symptoms, conversations'[p].symptoms)]_vars

\* C19. State validation: updateState with a newState that is not one of
\* the recognized values throws 'Invalid conversation state' and leaves the
\* conversations unchanged, no entry being created for a counterpart that
\* was never seen.
C19_InvalidStateRejected ==
    [][\A p \in Phones, additionalData \in Patches :
          UpdateStateCall(p, "UNKNOWN", additionalData) =>
              /\ stateOp'.threw = InvalidStateError
              /\ conversations' = conversations]_vars

\* getCurrentState(p) does what the ceiling asks: a tracked counterpart gets
\* its state, an unseen one gets an entry below the ceiling and the capacity
\* error, with no entry created, at the ceiling.
CeilingRespected(p) ==
    IF conversations[p].exists
    THEN stateOp'.threw = "none" /\ conversations' = conversations
    ELSE IF Size(conversations, others) = maxConcurrentConversations
         THEN stateOp'.threw = CapacityError /\ conversations' = conversations
         ELSE stateOp'.threw = "none" /\ conversations'[p].exists

\* C20. Capacity ceiling: the number of tracked counterparts never exceeds
\* maxConcurrentConversations; at the ceiling getCurrentState of an unseen
\* counterpart fails with the capacity error and creates no entry, and
\* getCurrentState of a tracked counterpart still returns its state.
C20_CapacityCeiling ==
    /\ [](Size(conversations, others) <= maxConcurrentConversations)
    /\ [][\A p \in Phones : GetCurrentStateCall(p) => CeilingRespected(p)]_vars

\* getCurrentState of an unseen counterpart has thrown at the ceiling while
\* another counterpart is tracked.
C20_Witness ==
    /\ stateOp.threw = CapacityError /\ stateOp.phone # 0
    /\ Size(conversations, others) = maxConcurrentConversations
    /\ \E q \in Phones : conversations[q].exists

\* C21. Each run of the sweep removes every counterpart whose last
\* interaction is older than the idle timeout and none whose last interaction
\* is within it; a counterpart evicted while not FINISHED is in a snapshot,
\* marked FINISHED, that the sweep wrote before removing it.
C21_IdleEviction ==
    [][CleanupInactiveConversations =>
        \A p \in Phones : conversations[p].exists =>
            /\ conversations[p].idle > conversationTimeout => ~conversations'[p].exists
            /\ conversations[p].idle <= conversationTimeout =>
                    conversations'[p] = conversations[p]
            /\ (~conversations'[p].exists /\ conversations[p].state # "FINISHED"
                    /\ sweep'.written) => p \in sweep'.snapshot]_vars

\* A counterpart loaded from the snapshot has been idle for longer than the
\* timeout and is still tracked after a sweep.
C21_Witness ==
    \E p \in Phones :
        /\ p \in sweep.overdue \ sweep.evicted
        /\ conversations[p].exists
        /\ conversations[p].stamp = "string"

\* C22. The delay of the timer set for reconnect attempt n, n = 1..5, is
\* RECONNECT_DELAY * 2^(n-1): 5000, 10000, 20000, 40000, 80000 ms.
C22_ReconnectBackoff ==
    \A i \in 1..Len(scheduled) :
        /\ scheduled[i][1] \in 1..MAX_RECONNECT_ATTEMPTS
        /\ scheduled[i][2] = <<5000, 10000, 20000, 40000, 80000>>[scheduled[i][1]]
        /\ (connectionTimeout.armed /\ i = Len(scheduled)) =>
                connectionTimeout.delay = scheduled[i][2]

\* The timer of the fifth attempt is pending.
C22_Witness ==
    /\ connectionTimeout.armed
    /\ connectionTimeout.attempt = MAX_RECONNECT_ATTEMPTS
    /\ connectionTimeout.delay = 80000

\* A disconnection, a connection error or a failed reconnection is handled.
ConnectionSignal == Disconnected \/ ConnectionError \/ ReconnectFails

\* C23. Without a successful reconnection in between, the attempts that are
\* scheduled are numbered 1, 2, .. and never beyond MAX_RECONNECT_ATTEMPTS:
\* below the cap every signal schedules the next attempt, and at the cap a
\* signal leaves the manager not ready, the counter at the cap and no timer
\* set.
C23_ReconnectCap ==
    /\ [](/\ reconnectAttempts \in 0..MAX_RECONNECT_ATTEMPTS
          /\ \A i \in 1..Len(scheduled) :
                /\ scheduled[i][1] \in 1..MAX_RECONNECT_ATTEMPTS
                /\ i > 1 => scheduled[i][1] \in {1, scheduled[i - 1][1] + 1})
    /\ [][ConnectionSignal =>
            IF reconnectAttempts < MAX_RECONNECT_ATTEMPTS
            THEN /\ reconnectAttempts' = reconnectAttempts + 1
                 /\ Len(scheduled') = Len(scheduled) + 1
                 /\ scheduled'[Len(scheduled')][1] = reconnectAttempts'
            ELSE /\ ~isReady'
                 /\ reconnectAttempts' = MAX_RECONNECT_ATTEMPTS
                 /\ scheduled' = scheduled
                 /\ connectionTimeout' = connectionTimeout]_vars

\* Five attempts were scheduled in a row, the fifth failed, and the manager
\* is not ready with the counter at the cap and no timer pending.
C23_Witness ==
    /\ reconnectAttempts = MAX_RECONNECT_ATTEMPTS
    /\ Len(scheduled) = MAX_RECONNECT_ATTEMPTS
    /\ ~connectionTimeout.armed
    /\ reconnecting = 0
    /\ ~isReady

\* C24. Whenever the connection is re-established while reconnecting (the
\* initialize() of a reconnection timer resolves, or the client signals
\* ready), the attempt counter is 0 and the manager is ready, so that the
\* next signal schedules attempt 1 with the base delay.
C24_ReconnectSuccess ==
    [][((Ready \/ ReconnectSucceeds) /\ reconnectAttempts > 0) =>
            /\ reconnectAttempts' = 0
            /\ isReady'
            /\ ReconnectDelay(reconnectAttempts' + 1) = RECONNECT_DELAY]_vars

\* The client is ready again and the counter still holds the attempts made
\* before.
C24_Witness == isReady /\ reconnectAttempts > 0 /\ reconnecting = 0

\* C25. One sendMessage call makes at most 3 transport send attempts, returns
\* after the first successful attempt without a further one, sleeps 1000 * k
\* ms after the k-th failed attempt, and throws after the 3rd failed attempt.
C25_SendRetry ==
    /\ [](\A w \in Calls : call[w].kind = "sendMessage" =>
            /\ call[w].opRuns <= maxRetries
            /\ call[w].pc = "sendsleep" =>
                    /\ call[w].attempts \in 1..(maxRetries - 1)
                    /\ call[w].waited = 1000 * call[w].attempts
            /\ call[w].pc = "returned" =>
                    /\ call[w].result = "sent"
                    /\ call[w].opRuns = call[w].attempts + 1
            /\ (call[w].pc = "thrown" /\ call[w].err = "send failed") =>
                    /\ call[w].attempts = 3
                    /\ call[w].opRuns = 3)
    /\ [][\A w \in Calls :
            (call[w].kind = "sendMessage" /\ call[w].pc \in {"returned", "thrown"}) =>
                call'[w] = call[w]]_vars

\* A call slept 1000 ms and then 2000 ms and threw after its third attempt
\* failed.
C25_Witness ==
    \E w \in Calls :
        /\ call[w].kind = "sendMessage"
        /\ call[w].pc = "thrown"
        /\ call[w].err = "send failed"
        /\ call[w].waited = 2000

\* C30. A message whose sending is requested while the client is not ready
\* is kept and sent once the client is ready: the request does not fail.
C30_QueuedWhileNotReady ==
    \A w \in Calls :
        call[w].kind = "sendMessage" =>
            ~(call[w].pc = "thrown" /\ call[w].err = "not ready")

C27_StoreFailureNonFatal ==
    \A t \in Turns :
        (turn[t].pc = "returned" /\ turn[t].responded /\ TrackingFailed(turn[t])) =>
            turn[t].reply = "response"

\* A turn returned the response although its first-time tracking and its
\* lead tracking both failed.
C27_Witness ==
    \E t \in Turns :
        /\ turn[t].pc = "returned"
        /\ turn[t].reply = "response"
        /\ turn[t].first /\ ~turn[t].firstOk
        /\ turn[t].leadCalled /\ ~turn[t].leadOk

\* C28. When the upload of a valid inbound image fails, the turn goes on: the
\* provider is asked for the reply, so that the turn does not end with the
\* answer of the image block.
C28_MediaFailureNonBlocking ==
    \A t \in Turns :
        (turn[t].imageFailed /\ turn[t].pc = "returned") =>
            turn[t].reply \in {"response", "apology"}

\* A row of the Leads sheet carries a symptom or an extracted location.
Actionable(row) == Len(row.symptoms) > 0 \/ row.location = District

\* C29. Every row of the Leads sheet carries at least one extracted symptom
\* or an extracted location.
C29_LeadsActionable ==
    \A pd \in Phones \X Days :
        /\ \A i \in 1..Len(workbook.leads[pd]) : Actionable(workbook.leads[pd][i])
        /\ \A i \in 1..Len(file.leads[pd]) : Actionable(file.leads[pd][i])

\* A text goes out for message m in this step.
SendsFor(m) == msg[m].sent < 0 /\ msg'[m].sent = 0

\* C31. Two consecutive outbound messages to the same user are at least 6
\* seconds apart.
C31_RateLimit ==
    [][\A m \in Msgs : SendsFor(m) =>
            \A n \in Msgs : (msg[n].chat = msg[m].chat /\ msg[n].sent >= 0) =>
                msg[n].sent >= 6000]_vars

\* C32. A message that is ignored because its chat is busy leaves the
\* processing lock of the chat set.
C32_IgnoredKeepsLock ==
    [][\A m \in Msgs :
            (msg[m].pc = "new" /\ msg'[m].pc = "ignored") =>
                /\ msg'[m].chat \in processingLock'
                /\ processingLock' = processingLock]_vars

\* The PROCESSING_TIMEOUT timer of message m fires in this step.
TimerFiresFor(m) == msg[m].timer = "armed" /\ msg'[m].timer = "fired"

\* C33. The expiry timer armed by a turn that has completed never clears the
\* processing lock held by a later turn of the same chat (one whose own
\* PROCESSING_TIMEOUT has not passed).
C33_LockOwnership ==
    [][\A m \in Msgs :
            (/\ TimerFiresFor(m)
             /\ msg[m].pc = "done"
             /\ \E n \in Msgs : /\ msg[n].chat = msg[m].chat
                                /\ msg[n].pc \in InFlight
                                /\ msg[n].age < PROCESSING_TIMEOUT) =>
                processingLock' = processingLock]_vars

\* acquireLock of call w throws its lock-acquisition-timeout error in this
\* step.
AcquisitionFails(w) ==
    call[w].pc = "acquire" /\ call'[w].pc \in {"backoff", "failed"}

\* C34. When acquireLock inside tryOperation fails with the
\* lock-acquisition-timeout error, the lock entries are left as they are.
C34_FailedAcquireKeepsLock ==
    [][\A w \in Calls :
            AcquisitionFails(w) =>
                fileLock' = fileLock /\ lockTimeout' = lockTimeout]_vars

\* C35. isLeadProcessedToday(c) is true only if the lead of c was processed,
\* and markLeadAsProcessed(c) called, on the current calendar day of
\* America/Lima: a later update of the state does not carry the flag of a
\* previous day over. (Stated for a process in UTC, where the service derives
\* the day in America/Lima.)
C35_FlagSound ==
    \A p \in Phones :
        (/\ hostTZ = "UTC"
         /\ conversations[p].exists
         /\ IsLeadProcessedToday(conversations[p], StateDay)) =>
            <<p, today>> \in leadDays


\* Call w is the only call whose closure has run, it ran more than once
\* (tryOperation re-ran it after a retryable store error) and the call has
\* ended with success.
SucceededAfterRerun(w) ==
    /\ call[w].kind \in {"trackUser", "trackObjection", "trackFreeConsultation"}
    /\ call[w].pc = "done" /\ call[w].result = "ok"
    /\ call[w].opRuns > 1
    /\ \A v \in Calls \ {w} : call[v].opRuns = 0

\* C36. Retries do not duplicate effects: when a call of trackUser,
\* trackObjection or trackFreeConsultation succeeds after tryOperation re-ran
\* its body, the workbook is what one run of the body makes of the workbook
\* the call started with: one objection or offer row, interactions plus one.
C36_RetryNoDuplicate ==
    \A w \in Calls :
        SucceededAfterRerun(w) =>
            workbook = BodyOf(call[w].kind, EmptyWorkbook, call[w].arg, TrackDay)



\* Turn t is suspended: awaiting the provider, the store or the contact.
Suspended(t) == turn[t].pc \notin {"idle", "returned"}

\* Conversation c is tracked and holds a location or symptoms.
HoldsFacts(c) == c.exists /\ (c.location \/ Len(c.symptoms) > 0)

\* Conversation d holds the entry and every fact conversation c holds.
KeepsFacts(c, d) ==
    /\ d.exists
    /\ c.name => d.name
    /\ c.location => d.location
    /\ Len(c.symptoms) <= Len(d.symptoms)

\* C37. The idle sweep never evicts a counterpart while one of its turns is
\* in flight: no step taken while a turn of a counterpart with accumulated
\* facts is suspended removes the counterpart's conversation or a fact it
\* holds.
C37_NoEvictionInFlight ==
    [][\A t \in Turns :
          (Suspended(t) /\ HoldsFacts(conversations[turn[t].phone]))
          => KeepsFacts(conversations[turn[t].phone], conversations'[turn[t].phone])]_vars



\* The reconnect attempts pending (the armed timer) or running (initialize()
\* calls of fired timers that have not settled).
ReconnectsUnderWay == reconnecting + (IF connectionTimeout.armed THEN 1 ELSE 0)

\* C38. At most one reconnect attempt is pending or running at any time: a
\* signal that arrives while initialize() of a reconnect attempt is in
\* progress starts no second, overlapping attempt.
C38_SingleReconnect == ReconnectsUnderWay <= 1



\* C39. After any sequence of getCurrentState, updateState, markAsGreeted,
\* markLeadAsProcessed, cleanupInactiveConversations and resetState calls
\* the conversations Map and the lastInteraction Map have the same keys.
C39_SameKeys ==
    \A p \in Phones : conversations[p].exists <=> conversations[p].timed

\* A counterpart has been reset after the sweep evicted one, and a
\* conversation is tracked.
C39_Witness ==
    /\ stateOp.op = "resetState" /\ ~conversations[stateOp.phone].exists
    /\ sweep.evicted # {}
    /\ \E p \in Phones : conversations[p].exists

\* C40. Reachable conversation states: in every reachable state the state of
\* each tracked conversation is INITIAL or COLLECTING_INFO, hence a value of
\* the enumeration and none of WAITING_NAME, WAITING_LOCATION,
\* WAITING_SYMPTOMS and SCHEDULING; FINISHED is only set by the idle sweep on
\* the conversation it is removing.
C40_ReachableStates ==
    \A p \in Phones :
        conversations[p].exists =>
            /\ conversations[p].state \in CONVERSATION_STATES
            /\ conversations[p].state \in {"INITIAL", "COLLECTING_INFO"}

====
